---- MODULE Spec2Model ----
(***************************************************************************)
(* Verification model of the VoynichDecoder block scheduler                *)
(* (MappingGenerator), its JSON checkpoint and the worker pool             *)
(* (ThreadManager) that drives it.                                         *)
(*                                                                         *)
(* Timestamps (assignedTime / completedTime) are not modelled: no handler  *)
(* branches on them.                                                       *)
(***************************************************************************)
EXTENDS Integers, Sequences, FiniteSets, TLC

(* ------------------------------ bounds --------------------------------- *)
\* Width of the alphabet in the model (27 in the program); the search space
\* is factorial(AlphabetSize).
AlphabetSize == 3
\* The configured block size is chosen so that the search space is cut into
\* at most MaxBlocks blocks.
MaxBlocks == 3
\* Number of worker thread ids (config.numThreads).
NumThreads == 2
\* Times the process may be killed in one behaviour of the worker pool.
MaxKills == 1
\* Number of global indices indexToPermutation is applied to.
NumSamples == 11
\* Largest block size generateBlock is applied with.
MaxBlockSize == 4

\* Number of bit positions the input vectors of applyMapping are drawn over.
NumPositions == 3
\* Largest number of words of a corpus translateWordSet is applied to.
MaxWords == 2

\* Number of mappings the workers validate in one behaviour.
MaxMappings == 3

\* Number of messages submitted to the statistics queue in one behaviour.
MaxMessages == 2
\* Number of times the statistics provider is started in one behaviour.
MaxRuns == 2

(* --------------------------- program constants ------------------------- *)
\* enum class BlockState { PENDING, COMPLETED }
PENDING == 0
COMPLETED == 1
\* assignedThreadId of a block nobody holds
Unassigned == 0 - 1

RECURSIVE factorial(_)
\* MappingGenerator::factorial
factorial(n) == IF n <= 1 THEN 1 ELSE n * factorial(n - 1)

\* MappingGenerator::TOTAL_COMBINATIONS as the scheduler of the model sees
\* it, the search space being scaled to AlphabetSize symbols (the literal of
\* the program is TOTAL_COMBINATIONS_LITERAL)
TOTAL_COMBINATIONS == factorial(AlphabetSize)

\* GeneratorConfig::blockSize, the configured number of mappings per block
blockSize == (TOTAL_COMBINATIONS + MaxBlocks - 1) \div MaxBlocks

Threads == 0 .. (NumThreads - 1)

\* Number of blocks in the search space (last one possibly short)
NumBlocks == (TOTAL_COMBINATIONS + blockSize - 1) \div blockSize

\* Return value of getNextBlock when the vector is empty
NoBlock == 0 - 1

(* ------------------------------ state ---------------------------------- *)
VARIABLES
    state,            \* MappingGenerator::state (GeneratorState)
    blockWindow,      \* MappingGenerator::blockWindow (deque<BlockInfo>)
    threadToBlock,    \* MappingGenerator::threadToBlock (threadId -> block)
    enableStateFile,  \* config.enableStateFile
    stateFile,        \* the checkpoint file on disk
    returned,         \* history: times each block index was returned by
                      \* getNextBlock in this scheduler lifetime (capped at 2)
    createdLog,       \* history: block indices created since fresh / reset
    lastOp,           \* history: the last operation that returned
    lastRet,          \* history: block index returned by the last getNextBlock
    lastPath,         \* history: how the last getNextBlock got its block
    pc,               \* position of every worker thread
    wBlock,           \* block whose mappings the worker is processing
    wDone,            \* mappings of that block the worker has processed
    shouldStop,       \* ThreadManager::shouldStop
    signalReceived,   \* ThreadManager::signalReceived
    isRunning,        \* ThreadManager::isRunning
    mainPc,           \* position of the main thread (runDecoding)
    kills,            \* history: times the process was killed
    doneBlocks,       \* history: blocks a worker processed in full and
                      \* then completed with completeCurrentBlock
    fnCall,           \* the last call of a member function that leaves the
                      \* scheduler as it is: its arguments and its result
    vpc,              \* position of every worker in its validator
    vEntry,           \* the ValidationEntry the worker's validator saves
    resultsMutex,     \* HebrewValidator::resultsMutex of every validator:
                      \* the worker that holds it
    resultsFile,      \* the results file all validators append to
    mappingCounter,   \* VoynichDecoder::stats.totalMappingsProcessed
    messageQueue,     \* StatsProvider::messageQueue
    queueMutex,       \* StatsProvider::queueMutex: held by the consumer
    statsShouldStop,  \* StatsProvider::shouldStop
    statsPc,          \* position of StatsProvider::statsThread
    message,          \* the message processMessages took from the queue
    statsMain,        \* position of the thread that starts and stops the
                      \* StatsProvider
    counters,         \* StatsProvider's statistics data
    submitted,        \* history: messages pushed since start()
    applied,          \* history: messages handled since start()
    lastHandled,      \* history: the message handled last since start()
    runs,             \* history: times start() started the consumer
    handlerPc,        \* position of the interrupt handler (signalHandler or
                      \* consoleHandler)
    handlerThread,    \* the thread the handler runs on: the main thread
                      \* it interrupts, or a thread of its own
    aborted           \* std::terminate has ended the process

schedVars == <<state, blockWindow, threadToBlock, enableStateFile, stateFile,
               returned, createdLog, lastOp, lastRet, lastPath, fnCall>>

\* GeneratorState::GeneratorState()
GeneratorState ==
    [nextBlockToGenerate |-> 0, oldestTrackedBlock |-> 0,
     totalBlocksGenerated |-> 0, totalBlocksCompleted |-> 0,
     isComplete |-> FALSE]

\* BlockInfo::BlockInfo()
BlockInfoDefault ==
    [blockIndex |-> 0, state |-> PENDING, assignedThreadId |-> Unassigned]

\* BlockInfo::BlockInfo(idx, threadId)
BlockInfo(idx, threadId) ==
    [blockIndex |-> idx, state |-> PENDING, assignedThreadId |-> threadId]

EmptyMap == [t \in {} |-> 0]

NoFile == [exists |-> FALSE, lines |-> <<>>]

ZeroReturned == [b \in 0 .. (NumBlocks - 1) |-> 0]

\* no member function has been called yet
NoCall == [op |-> "none"]

poolVars == <<pc, wBlock, wDone, shouldStop, signalReceived, isRunning,
              mainPc, kills, doneBlocks>>

resultsVars == <<vpc, vEntry, resultsMutex, resultsFile, mappingCounter>>

statsVars == <<messageQueue, queueMutex, statsShouldStop, statsPc, message,
               statsMain, counters, submitted, applied, lastHandled, runs>>

managerVars == <<handlerPc, handlerThread, aborted>>

reportVars == <<resultsVars, statsVars, managerVars>>

(* ----------------------- checkpoint serialisation ---------------------- *)
\* One line of the checkpoint text after whitespace removal: the key or
\* punctuation it carries, its number (if any) and its text value (if any).
Line(k, n, s) == [key |-> k, num |-> n, str |-> s]
Punct(k) == Line(k, 0, "")

\* MappingGenerator::blockStateToString
blockStateToString(s) ==
    IF s = PENDING THEN "PENDING"
    ELSE IF s = COMPLETED THEN "COMPLETED"
    ELSE "UNKNOWN"

\* The lines saveStateToJson writes for block i of the window.
BlockLines(win, i) ==
    << Punct("{"),
       Line("blockIndex", win[i].blockIndex, ""),
       Line("state", 0, blockStateToString(win[i].state)),
       Line("assignedThreadId", win[i].assignedThreadId, ""),
       Punct(IF i = Len(win) THEN "}" ELSE "},") >>

RECURSIVE WindowLinesDropLast(_, _)
\* mutant: the loop over the window stops one block early
WindowLinesDropLast(win, i) ==
    IF i >= Len(win) THEN <<>>
    ELSE BlockLines(win, i) \o WindowLinesDropLast(win, i + 1)

RECURSIVE WindowLines(_, _)
WindowLines(win, i) ==
    IF i > Len(win) THEN <<>>
    ELSE BlockLines(win, i) \o WindowLines(win, i + 1)

\* MappingGenerator::saveStateToJson: the text written to the state file
saveStateToJson(st, win) ==
    << Punct("{"),
       Punct("generator_state"),
       Line("nextBlockToGenerate", st.nextBlockToGenerate, ""),
       Line("oldestTrackedBlock", st.oldestTrackedBlock, ""),
       Line("totalBlocksGenerated", st.totalBlocksGenerated, ""),
       Line("totalBlocksCompleted", st.totalBlocksCompleted, ""),
       Line("isComplete", 0, IF st.isComplete THEN "true" ELSE "false"),
       Punct("},"),
       Punct("block_window") >>
    \o WindowLines(win, 1) \o
    << Punct("],"),
       Punct("config"),
       Line("blockSize", blockSize, ""),
       Punct("}"),
       Punct("}") >>

RECURSIVE ParseState(_, _, _)
\* The line loop of loadStateFromJson, from line i on, updating st.
ParseState(lines, i, st) ==
    IF i > Len(lines) THEN st
    ELSE LET l == lines[i]
             st2 == IF l.key = "nextBlockToGenerate"
                        THEN [st EXCEPT !.nextBlockToGenerate = l.num]
                    ELSE IF l.key = "oldestTrackedBlock"
                        THEN [st EXCEPT !.oldestTrackedBlock = l.num]
                    ELSE IF l.key = "totalBlocksGenerated"
                        THEN [st EXCEPT !.totalBlocksGenerated = l.num]
                    ELSE IF l.key = "totalBlocksCompleted"
                        THEN [st EXCEPT !.totalBlocksCompleted = l.num]
                    ELSE IF l.key = "isComplete"
                        THEN [st EXCEPT !.isComplete = (l.str = "true")]
                    ELSE st
         IN ParseState(lines, i + 1, st2)

RECURSIVE ParseWindow(_, _, _, _, _, _)
\* The line loop of loadBlockWindowFromJson, from line i on.
ParseWindow(lines, i, inBlockWindow, inBlockObject, currentBlock, win) ==
    IF i > Len(lines) THEN win
    ELSE LET l == lines[i] IN
         IF l.key = "block_window"
             THEN ParseWindow(lines, i + 1, TRUE, inBlockObject,
                              currentBlock, win)
         ELSE IF inBlockWindow /\ l.key = "{"
             THEN ParseWindow(lines, i + 1, inBlockWindow, TRUE,
                              BlockInfoDefault, win)
         ELSE
           LET cb == IF inBlockObject /\ l.key = "blockIndex"
                         THEN [currentBlock EXCEPT !.blockIndex = l.num]
                     ELSE IF inBlockObject /\ l.key = "state"
                         THEN IF l.str = "PENDING"
                                  THEN [currentBlock EXCEPT !.state = PENDING]
                              ELSE IF l.str = "COMPLETED"
                                  THEN [currentBlock EXCEPT
                                            !.state = COMPLETED]
                              ELSE currentBlock
                     ELSE IF inBlockObject /\ l.key = "assignedThreadId"
                         THEN [currentBlock EXCEPT !.assignedThreadId = l.num]
                     ELSE currentBlock
               closes == inBlockObject /\ (l.key = "}" \/ l.key = "},")
               win2 == IF closes THEN Append(win, cb) ELSE win
               obj2 == IF closes THEN FALSE ELSE inBlockObject
           IN IF inBlockWindow /\ l.key = "],"
                  THEN win2
                  ELSE ParseWindow(lines, i + 1, inBlockWindow, obj2, cb,
                                   win2)

\* MappingGenerator::loadBlockWindowFromJson
loadBlockWindowFromJson(lines) ==
    ParseWindow(lines, 1, FALSE, FALSE, BlockInfoDefault, <<>>)

\* MappingGenerator::loadStateFromJson (the file is known to open)
loadStateFromJson(lines) ==
    [state |-> ParseState(lines, 1, GeneratorState),
     blockWindow |-> loadBlockWindowFromJson(lines)]

\* mutant: the load re-opens COMPLETED blocks as well
loadPendingBlocksReopenCompleted(win) ==
    [i \in 1 .. Len(win) |->
        [win[i] EXCEPT !.state = PENDING, !.assignedThreadId = Unassigned]]

\* MappingGenerator::loadPendingBlocksFromState (window part)
loadPendingBlocksFromState(win) ==
    [i \in 1 .. Len(win) |->
        IF win[i].state = PENDING
            THEN [win[i] EXCEPT !.assignedThreadId = Unassigned]
            ELSE win[i]]


\* The number of a line that was cut before its first digit.
NoDigits == 0 - 2

\* keys whose value the loaders read with std::stoull or std::stoi
NumberKeys ==
    {"nextBlockToGenerate", "oldestTrackedBlock", "totalBlocksGenerated",
     "totalBlocksCompleted", "blockIndex", "assignedThreadId"}

\* What saveStateToJson leaves on disk when the process dies inside it: the
\* ofstream has truncated the file and a part of the text has reached the
\* disk, cut between two lines or inside a number line.
TornTexts(lines) ==
    {SubSeq(lines, 1, n) : n \in 0 .. (Len(lines) - 1)}
    \cup {Append(SubSeq(lines, 1, n - 1), [lines[n] EXCEPT !.num = NoDigits]) :
             n \in {m \in 1 .. Len(lines) : lines[m].key \in NumberKeys}}

\* std::stoull / std::stoi throw std::invalid_argument on a number line
\* without digits, and neither loader nor the constructor catches it
loadThrows(lines) ==
    \E i \in 1 .. Len(lines) :
        lines[i].key \in NumberKeys /\ lines[i].num = NoDigits

(* --------------------------- scheduler handlers ------------------------ *)
\* The scheduler as a value handlers transform: its members, the file on
\* disk, the creation history, the checkpoints written so far by the running
\* handler (snaps) and the handler's return value (ret).
G == [state |-> state, blockWindow |-> blockWindow,
      threadToBlock |-> threadToBlock, file |-> stateFile,
      createdLog |-> createdLog, snaps |-> <<>>, ret |-> NoBlock]

MapErase(m, t) == [x \in (DOMAIN m) \ {t} |-> m[x]]
MapPut(m, t, v) == [x \in (DOMAIN m) \cup {t} |-> IF x = t THEN v ELSE m[x]]

\* "if (config.enableStateFile) saveStateToJson();"
Save(g) ==
    IF enableStateFile
        THEN LET f == [exists |-> TRUE,
                       lines |-> saveStateToJson(g.state, g.blockWindow)]
             IN [g EXCEPT !.file = f,
                          !.snaps = Append(@, [file |-> f,
                                               createdLog |-> g.createdLog])]
        ELSE g

\* MappingGenerator::findBlockInWindow: position of the block, 0 for nullptr
findBlockInWindow(win, idx) ==
    LET ps == {i \in 1 .. Len(win) : win[i].blockIndex = idx}
    IN IF ps = {} THEN 0 ELSE CHOOSE i \in ps : \A j \in ps : i <= j

\* mutant: the completion is not counted in totalBlocksCompleted
completeBlockForThreadNoCount(g, t) ==
    IF t \notin DOMAIN g.threadToBlock THEN g
    ELSE LET idx == g.threadToBlock[t]
             p == findBlockInWindow(g.blockWindow, idx)
             g1 == IF p # 0 /\ g.blockWindow[p].state = PENDING
                          /\ g.blockWindow[p].assignedThreadId = t
                       THEN Save([g EXCEPT
                                !.blockWindow[p].state = COMPLETED])
                       ELSE g
         IN [g1 EXCEPT !.threadToBlock = MapErase(@, t)]

\* mutant: the thread mapping is not removed
completeBlockForThreadKeepsMap(g, t) ==
    IF t \notin DOMAIN g.threadToBlock THEN g
    ELSE LET idx == g.threadToBlock[t]
             p == findBlockInWindow(g.blockWindow, idx)
         IN IF p # 0 /\ g.blockWindow[p].state = PENDING
                     /\ g.blockWindow[p].assignedThreadId = t
                THEN Save([g EXCEPT
                              !.blockWindow[p].state = COMPLETED,
                              !.state.totalBlocksCompleted = @ + 1])
                ELSE g

\* MappingGenerator::completeBlockForThread
completeBlockForThread(g, t) ==
    IF t \notin DOMAIN g.threadToBlock THEN g
    ELSE LET idx == g.threadToBlock[t]
             p == findBlockInWindow(g.blockWindow, idx)
             g1 == IF p # 0 /\ g.blockWindow[p].state = PENDING
                          /\ g.blockWindow[p].assignedThreadId = t
                       THEN Save([g EXCEPT
                                !.blockWindow[p].state = COMPLETED,
                                !.state.totalBlocksCompleted = @ + 1])
                       ELSE g
         IN [g1 EXCEPT !.threadToBlock = MapErase(@, t)]

\* mutant: the new block is pushed to the front of the window
addBlockToWindowFront(g, idx, t) ==
    IF findBlockInWindow(g.blockWindow, idx) # 0 THEN g
    ELSE [g EXCEPT !.blockWindow = <<BlockInfo(idx, t)>> \o @,
                   !.threadToBlock = MapPut(@, t, idx),
                   !.createdLog = Append(@, idx)]

\* MappingGenerator::addBlockToWindow
addBlockToWindow(g, idx, t) ==
    IF findBlockInWindow(g.blockWindow, idx) # 0 THEN g
    ELSE [g EXCEPT !.blockWindow = Append(@, BlockInfo(idx, t)),
                   !.threadToBlock = MapPut(@, t, idx),
                   !.createdLog = Append(@, idx)]

\* mutant: nextBlockToGenerate is not incremented
createNewBlockNoNextIncrement(g, t) ==
    IF g.state.nextBlockToGenerate * blockSize >= TOTAL_COMBINATIONS
        THEN [g EXCEPT !.state.isComplete = TRUE, !.ret = NoBlock]
        ELSE LET newBlockIndex == g.state.nextBlockToGenerate
                 g1 == addBlockToWindow(g, newBlockIndex, t)
                 g2 == [g1 EXCEPT !.state.totalBlocksGenerated = @ + 1]
             IN [Save(g2) EXCEPT !.ret = newBlockIndex]

\* mutant: totalBlocksGenerated is not incremented
createNewBlockNoGeneratedIncrement(g, t) ==
    IF g.state.nextBlockToGenerate * blockSize >= TOTAL_COMBINATIONS
        THEN [g EXCEPT !.state.isComplete = TRUE, !.ret = NoBlock]
        ELSE LET newBlockIndex == g.state.nextBlockToGenerate
                 g1 == addBlockToWindow(g, newBlockIndex, t)
                 g2 == [g1 EXCEPT !.state.nextBlockToGenerate = @ + 1]
             IN [Save(g2) EXCEPT !.ret = newBlockIndex]

\* mutant: the allocation of a block is not written to the state file
createNewBlockForThreadNoSave(g, t) ==
    IF g.state.nextBlockToGenerate * blockSize >= TOTAL_COMBINATIONS
        THEN [g EXCEPT !.state.isComplete = TRUE, !.ret = NoBlock]
        ELSE LET newBlockIndex == g.state.nextBlockToGenerate
                 g1 == addBlockToWindow(g, newBlockIndex, t)
                 g2 == [g1 EXCEPT !.state.nextBlockToGenerate = @ + 1,
                                  !.state.totalBlocksGenerated = @ + 1]
             IN [g2 EXCEPT !.ret = newBlockIndex]

\* MappingGenerator::createNewBlockForThread (ret = NoBlock for UINT64_MAX)
createNewBlockForThread(g, t) ==
    IF g.state.nextBlockToGenerate * blockSize >= TOTAL_COMBINATIONS
        THEN [g EXCEPT !.state.isComplete = TRUE, !.ret = NoBlock]
        ELSE LET newBlockIndex == g.state.nextBlockToGenerate
                 g1 == addBlockToWindow(g, newBlockIndex, t)
                 g2 == [g1 EXCEPT !.state.nextBlockToGenerate = @ + 1,
                                  !.state.totalBlocksGenerated = @ + 1]
             IN [Save(g2) EXCEPT !.ret = newBlockIndex]

RECURSIVE PruneLoop(_)
\* the while loop of removeCompletedSequentialBlocks
PruneLoop(g) ==
    IF Len(g.blockWindow) > 0
       /\ Head(g.blockWindow).state = COMPLETED
       /\ Head(g.blockWindow).blockIndex = g.state.oldestTrackedBlock
        THEN PruneLoop([g EXCEPT !.blockWindow = Tail(@),
                                 !.state.oldestTrackedBlock = @ + 1])
        ELSE g

\* mutant: only the block at the head is removed
removeCompletedHeadOnly(g) ==
    IF Len(g.blockWindow) > 0
       /\ Head(g.blockWindow).state = COMPLETED
       /\ Head(g.blockWindow).blockIndex = g.state.oldestTrackedBlock
        THEN Save([g EXCEPT !.blockWindow = Tail(@),
                            !.state.oldestTrackedBlock = @ + 1])
        ELSE g

\* MappingGenerator::removeCompletedSequentialBlocks
removeCompletedSequentialBlocks(g) ==
    LET g1 == PruneLoop(g)
        removedCount == Len(g.blockWindow) - Len(g1.blockWindow)
    IN IF removedCount > 0 THEN Save(g1) ELSE g1

\* mutant: the scan takes the first PENDING block, held or not
FirstPendingHeldOrNot(win) ==
    LET ps == {i \in 1 .. Len(win) : win[i].state = PENDING}
    IN IF ps = {} THEN 0 ELSE CHOOSE i \in ps : \A j \in ps : i <= j

\* mutant: the scan takes the last unassigned PENDING block of the window
LastUnassignedPending(win) ==
    LET ps == {i \in 1 .. Len(win) :
                  win[i].state = PENDING
                  /\ win[i].assignedThreadId = Unassigned}
    IN IF ps = {} THEN 0 ELSE CHOOSE i \in ps : \A j \in ps : i >= j

\* First PENDING block of the window nobody holds (0 when there is none):
\* the scan at the top of getNextBlock
FirstUnassignedPending(win) ==
    LET ps == {i \in 1 .. Len(win) :
                  win[i].state = PENDING
                  /\ win[i].assignedThreadId = Unassigned}
    IN IF ps = {} THEN 0 ELSE CHOOSE i \in ps : \A j \in ps : i <= j

\* mutant: the block the caller already holds is not completed first
KeepPrevious(g, t) == g

\* "if (threadIt != threadToBlock.end()) completeBlockForThread(threadId);"
CompletePrevious(g, t) ==
    IF t \in DOMAIN g.threadToBlock THEN completeBlockForThread(g, t) ELSE g

\* MappingGenerator::getNextBlock; ret is the index of the block whose
\* mappings are returned, NoBlock for an empty vector
getNextBlock(g, t) ==
    LET g1 == CompletePrevious(g, t)
    IN IF g1.state.isComplete THEN [g1 EXCEPT !.ret = NoBlock]
       ELSE LET p == FirstUnassignedPending(g1.blockWindow)
            IN IF p # 0
                   THEN LET idx == g1.blockWindow[p].blockIndex
                            g2 == [g1 EXCEPT
                                     !.blockWindow[p].assignedThreadId = t,
                                     !.threadToBlock = MapPut(@, t, idx)]
                        IN [Save(g2) EXCEPT !.ret = idx]
                   ELSE createNewBlockForThread(g1, t)

\* MappingGenerator::completeCurrentBlock (and completeBlockForTesting)
completeCurrentBlock(g, t) ==
    Save(removeCompletedSequentialBlocks(completeBlockForThread(g, t)))

\* mutant: reset forgets blockWindow.clear()
resetKeepsWindow(g) ==
    [g EXCEPT !.state = GeneratorState,
              !.threadToBlock = EmptyMap,
              !.createdLog = <<>>,
              !.file = IF enableStateFile THEN NoFile ELSE @]

\* mutant: reset leaves the state file on disk
resetKeepsFile(g) ==
    [g EXCEPT !.state = GeneratorState,
              !.blockWindow = <<>>,
              !.threadToBlock = EmptyMap,
              !.createdLog = <<>>]

\* MappingGenerator::reset
reset(g) ==
    [g EXCEPT !.state = GeneratorState,
              !.blockWindow = <<>>,
              !.threadToBlock = EmptyMap,
              !.createdLog = <<>>,
              !.file = IF enableStateFile THEN NoFile ELSE @]

\* MappingGenerator::isGenerationComplete
isGenerationComplete == state.isComplete /\ Len(blockWindow) = 0

\* MappingGenerator::MappingGenerator: the members after construction with
\* file f on disk
Constructor(f) ==
    IF enableStateFile /\ f.exists
        THEN LET l == loadStateFromJson(f.lines)
             IN [state |-> l.state,
                 blockWindow |-> loadPendingBlocksFromState(l.blockWindow),
                 threadToBlock |-> EmptyMap]
        ELSE [state |-> GeneratorState, blockWindow |-> <<>>,
              threadToBlock |-> EmptyMap]

(* ------------------------ permutation generation ----------------------- *)
\* uint64_t values are written as sequences of decimal digits, the least
\* significant first and without leading zeros (0 is the empty sequence), so
\* that the arithmetic of the program is computed at its full width.
RECURSIVE ToU64(_)
\* a small number as a uint64_t
ToU64(n) == IF n = 0 THEN <<>> ELSE <<n % 10>> \o ToU64(n \div 10)

RECURSIVE Reverse(_)
Reverse(q) == IF q = <<>> THEN <<>> ELSE Append(Reverse(Tail(q)), Head(q))

RECURSIVE StripZeros(_)
\* removes the zeros at the most significant end
StripZeros(a) ==
    IF a # <<>> /\ a[Len(a)] = 0
        THEN StripZeros(SubSeq(a, 1, Len(a) - 1))
        ELSE a

\* the number written in decimal, most significant digit first
Decimal(ds) == StripZeros(Reverse(ds))

RECURSIVE LessFrom(_, _, _)
\* a < b for numbers of the same length, decided from digit i downwards
LessFrom(a, b, i) ==
    IF i = 0 THEN FALSE
    ELSE IF a[i] # b[i] THEN a[i] < b[i]
    ELSE LessFrom(a, b, i - 1)

\* a < b
Less(a, b) ==
    IF Len(a) # Len(b) THEN Len(a) < Len(b) ELSE LessFrom(a, b, Len(a))

RECURSIVE SubFrom(_, _, _, _)
\* digits i.. of a - b with the borrow so far (a >= b)
SubFrom(a, b, i, borrow) ==
    IF i > Len(a) THEN <<>>
    ELSE LET d == a[i] - (IF i <= Len(b) THEN b[i] ELSE 0) - borrow
         IN IF d < 0
                THEN <<d + 10>> \o SubFrom(a, b, i + 1, 1)
                ELSE <<d>> \o SubFrom(a, b, i + 1, 0)

\* a - b for a >= b
Minus(a, b) == StripZeros(SubFrom(a, b, 1, 0))

RECURSIVE TimesFrom(_, _, _, _)
\* digits i.. of a * m with the carry so far, m a small number
TimesFrom(a, m, i, carry) ==
    IF i > Len(a) THEN ToU64(carry)
    ELSE LET v == a[i] * m + carry
         IN <<v % 10>> \o TimesFrom(a, m, i + 1, v \div 10)

\* a * m in unbounded arithmetic, m a small number
Times(a, m) == StripZeros(TimesFrom(a, m, 1, 0))

\* 2^64
TwoTo64 == Decimal(<<1,8,4,4,6,7,4,4,0,7,3,7,0,9,5,5,1,6,1,6>>)

RECURSIVE WrapU64(_)
\* the value a uint64_t keeps of a: a mod 2^64
WrapU64(a) == IF Less(a, TwoTo64) THEN a ELSE WrapU64(Minus(a, TwoTo64))

RECURSIVE DivModAtMostOne(_, _, _)
\* mutant: the quotient is never more than 1
DivModAtMostOne(a, b, q) ==
    IF Less(a, b) THEN [quot |-> IF q > 1 THEN 1 ELSE q, rem |-> a]
    ELSE DivModAtMostOne(Minus(a, b), b, q + 1)

RECURSIVE DivMod(_, _, _)
\* quotient (a small number) and remainder of a / b, q counted so far
DivMod(a, b, q) ==
    IF Less(a, b) THEN [quot |-> q, rem |-> a]
    ELSE DivMod(Minus(a, b), b, q + 1)

\* "static constexpr uint64_t TOTAL_COMBINATIONS = 10888869450418352160ULL"
TOTAL_COMBINATIONS_LITERAL ==
    Decimal(<<1,0,8,8,8,8,6,9,4,5,0,4,1,8,3,5,2,1,6,0>>)

\* MappingGenerator::getTotalCombinations
getTotalCombinations == TOTAL_COMBINATIONS_LITERAL

RECURSIVE productLoop(_, _, _)
\* i * (i + 1) * ... * n * result in unbounded arithmetic
productLoop(i, n, result) ==
    IF i > n THEN result
    ELSE LET product == Times(result, i)
         IN IF product = <<>> THEN product
            ELSE productLoop(i + 1, n, product)

\* n!, the number of permutations of n symbols
NumberOfPermutations(n) == productLoop(2, n, ToU64(1))

\* the number of symbols of the EVA alphabet: the literal 27 of
\* indexToPermutation and of Mapping
EvaAlphabetSize == 27

RECURSIVE factorialLoop(_, _, _)
\* "for (int i = 2; i <= n; ++i) result *= i;" on a uint64_t result (once
\* the product is 0 it stays 0)
factorialLoop(i, n, result) ==
    IF i > n THEN result
    ELSE LET product == WrapU64(Times(result, i))
         IN IF product = <<>> THEN product
            ELSE factorialLoop(i + 1, n, product)

\* MappingGenerator::factorial at the width of uint64_t
factorialU64(n) == IF n <= 1 THEN ToU64(1) ELSE factorialLoop(2, n, ToU64(1))

\* the values factorial() returns for the arguments indexToPermutation uses
factorialValues == [n \in 0 .. (EvaAlphabetSize - 1) |-> factorialU64(n)]

\* mutant: the chosen element stays available
EraseNothing(q, i) == q

\* available.erase(available.begin() + chosen_index), positions from 1
EraseAt(q, i) == SubSeq(q, 1, i - 1) \o SubSeq(q, i + 1, Len(q))

RECURSIVE PermutationLoop(_, _, _, _)
\* the loop of indexToPermutation over position
PermutationLoop(position, remaining, available, result) ==
    IF position = 0 THEN result
    ELSE LET factorial_val == factorialValues[position - 1]
             dm == DivMod(remaining, factorial_val, 0)
             chosen_index == IF dm.quot >= Len(available)
                                 THEN Len(available) - 1
                                 ELSE dm.quot
         IN PermutationLoop(position - 1, dm.rem,
                            EraseAt(available, chosen_index + 1),
                            Append(result, available[chosen_index + 1]))

\* MappingGenerator::indexToPermutation
indexToPermutation(index) ==
    PermutationLoop(EvaAlphabetSize, index,
                    [i \in 1 .. EvaAlphabetSize |-> i - 1], <<>>)

\* mutant: the loop over the EVA symbols stops one symbol early
MappingOfSkipsLast(permutation) ==
    {<<i - 1, permutation[i]>> :
        i \in {j \in 1 .. Len(permutation) :
                  /\ j < EvaAlphabetSize
                  /\ permutation[j] >= 0
                  /\ permutation[j] < EvaAlphabetSize}}

\* the cells Mapping::setMapping sets to 1 in the 27 x 27 matrix of a new
\* Mapping: (i, permutation[i]) for every EVA symbol i
MappingOf(permutation) ==
    {<<i - 1, permutation[i]>> :
        i \in {j \in 1 .. Len(permutation) :
                  /\ j <= EvaAlphabetSize
                  /\ permutation[j] >= 0
                  /\ permutation[j] < EvaAlphabetSize}}

\* MappingGenerator::generateSingleMapping for a 64-bit global index: no
\* mapping at or beyond the program's TOTAL_COMBINATIONS
generateSingleMapping(globalIndex) ==
    IF ~Less(globalIndex, TOTAL_COMBINATIONS_LITERAL)
        THEN [made |-> FALSE, mapping |-> {}]
        ELSE [made |-> TRUE,
              mapping |-> MappingOf(indexToPermutation(globalIndex))]

RECURSIVE generateLoop(_, _, _)
\* the loop of generateBlock over i with generateSingleMapping, which makes
\* no mapping for a global index at or beyond TOTAL_COMBINATIONS
generateLoop(i, endIndex, block) ==
    IF i >= endIndex THEN block
    ELSE IF i >= TOTAL_COMBINATIONS
        THEN generateLoop(i + 1, endIndex, block)
        ELSE generateLoop(i + 1, endIndex,
                 Append(block, MappingOf(indexToPermutation(ToU64(i)))))

\* mutant: endIndex is not cut at TOTAL_COMBINATIONS and the loop starts one
\* index late
generateBlockShifted(blockIndex, size) ==
    LET startIndex == blockIndex * size
        endIndex == startIndex + size
    IN generateLoop(startIndex + 1, endIndex, <<>>)

\* MappingGenerator::generateBlock for config.blockSize = size
generateBlockOfSize(blockIndex, size) ==
    LET startIndex == blockIndex * size
        endIndex == IF startIndex + size > TOTAL_COMBINATIONS
                        THEN TOTAL_COMBINATIONS
                        ELSE startIndex + size
    IN generateLoop(startIndex, endIndex, <<>>)

\* MappingGenerator::generateBlock
generateBlock(blockIndex) == generateBlockOfSize(blockIndex, blockSize)

\* global indices below the program's TOTAL_COMBINATIONS at which the
\* arithmetic of indexToPermutation changes its course
SampleIndices ==
    <<
       ToU64(0),   \* 0
       ToU64(3),   \* 3
       ToU64(5),   \* 5
       Decimal(<<2,4,3,2,9,0,2,0,0,8,1,7,6,6,3,9,9,9,9>>),   \* 20! - 1
       Decimal(<<2,4,3,2,9,0,2,0,0,8,1,7,6,6,4,0,0,0,0>>),   \* 20!
       Decimal(<<4,8,6,5,8,0,4,0,1,6,3,5,3,2,8,0,0,0,0>>),   \* 2 * 20!
       Decimal(<<7,0,3,4,5,3,5,2,7,7,5,7,3,9,6,3,7,7,5>>),   \* (25! mod 2^64) - 1
       Decimal(<<7,0,3,4,5,3,5,2,7,7,5,7,3,9,6,3,7,7,6>>),   \* 25! mod 2^64
       Decimal(<<7,0,3,4,5,3,5,2,7,7,5,7,3,9,6,3,7,7,7>>),   \* (25! mod 2^64) + 1
       Decimal(<<9,4,6,7,4,3,7,2,8,5,7,5,0,6,0,3,7,7,6>>),   \* (25! mod 2^64) + 20!
       Decimal(<<1,0,8,8,8,8,6,9,4,5,0,4,1,8,3,5,2,1,5,9>>),   \* TOTAL_COMBINATIONS - 1
       Decimal(<<1,2,1,6,4,5,1,0,0,4,0,8,8,3,2,0,0,0>>),   \* 19!
       Decimal(<<7,2,9,8,7,0,6,0,2,4,5,2,9,9,2,0,0,0,0>>),   \* 3 * 20!
       ToU64(1)    \* 1
    >>

\* the k-th global index indexToPermutation is applied to
SampleIndex(k) ==
    IF k <= Len(SampleIndices) THEN SampleIndices[k]
    ELSE ToU64(k - Len(SampleIndices) + 5)

(* ------------------------------ translation ---------------------------- *)
\* enum class Alphabet { EVA, HEBREW }
EVA == "EVA"
HEBREW == "HEBREW"

\* Word::evaAlphabet: the code points of a .. z and of the space, with
\* their indices
evaAlphabet ==
    [c \in (97 .. 122) \cup {32} |-> IF c = 32 THEN 26 ELSE c - 97]

\* Word::hebrewAlphabet: the code points of the Hebrew letters in the order
\* of their indices 0 .. 26
hebrewAlphabetCodes ==
    <<1488, 1489, 1490, 1491, 1492, 1493, 1494, 1495, 1496, 1497, 1499,
      1500, 1502, 1504, 1505, 1506, 1508, 1510, 1511, 1512, 1513, 1514,
      1498, 1501, 1503, 1507, 1509>>

\* Word::hebrewAlphabet as a map from code point to index
hebrewAlphabet ==
    [c \in {hebrewAlphabetCodes[k] : k \in 1 .. Len(hebrewAlphabetCodes)} |->
        (CHOOSE k \in 1 .. Len(hebrewAlphabetCodes) :
            hebrewAlphabetCodes[k] = c) - 1]

\* Word::generateBinaryMatrix: 27 entries, entry of every character of the
\* text the word's alphabet knows set to 1
generateBinaryMatrix(text, alphabet) ==
    LET currentAlphabet == IF alphabet = EVA THEN evaAlphabet
                           ELSE hebrewAlphabet
    IN [k \in 1 .. EvaAlphabetSize |->
           IF \E n \in 1 .. Len(text) :
                 /\ text[n] \in DOMAIN currentAlphabet
                 /\ currentAlphabet[text[n]] = k - 1
               THEN 1 ELSE 0]

\* Word::Word
Word(text, alphabet) ==
    [text |-> text, alphabet |-> alphabet,
     binaryMatrix |-> generateBinaryMatrix(text, alphabet)]

\* entry [i][j] of the matrix of a Mapping
MatrixCell(cells, i, j) == IF <<i, j>> \in cells THEN 1 ELSE 0

\* mutant: the last column of the result is left 0
applyMappingDropsLastColumn(cells, inputVector) ==
    IF Len(inputVector) # EvaAlphabetSize
        THEN [j \in 1 .. EvaAlphabetSize |-> 0]
        ELSE [j \in 1 .. EvaAlphabetSize |->
                 IF j < EvaAlphabetSize
                    /\ \E i \in 1 .. EvaAlphabetSize :
                          /\ inputVector[i] # 0
                          /\ MatrixCell(cells, i - 1, j - 1) # 0
                     THEN 1 ELSE 0]

\* Mapping::applyMapping
applyMapping(cells, inputVector) ==
    IF Len(inputVector) # EvaAlphabetSize
        THEN [j \in 1 .. EvaAlphabetSize |-> 0]
        ELSE [j \in 1 .. EvaAlphabetSize |->
                 IF \E i \in 1 .. EvaAlphabetSize :
                       /\ inputVector[i] # 0
                       /\ MatrixCell(cells, i - 1, j - 1) # 0
                     THEN 1 ELSE 0]

\* a & b for the entries of binary matrices
BitAnd(a, b) == IF a = 1 /\ b = 1 THEN 1 ELSE 0

\* one row of StaticTranslator::matrixMultiplyBatch: sum over k of
\* inputRow[k] & transformMatrix[k][j], any positive sum becomes 1
multiplyRow(inputRow, cells) ==
    [j \in 1 .. EvaAlphabetSize |->
        LET sum == Cardinality({k \in 1 .. EvaAlphabetSize :
                       BitAnd(inputRow[k], MatrixCell(cells, k - 1, j - 1)) = 1})
        IN IF sum > 0 THEN 1 ELSE 0]

\* mutant: the rows from startRow + 1 on are computed
matrixMultiplyBatchSkipsFirst(inputMatrix, cells, resultMatrix, startRow, endRow) ==
    [i \in 1 .. Len(resultMatrix) |->
        IF i - 1 >= startRow + 1 /\ i - 1 < endRow
            THEN multiplyRow(inputMatrix[i], cells)
            ELSE resultMatrix[i]]

\* StaticTranslator::matrixMultiplyBatch: rows startRow .. endRow - 1 of the
\* result are computed, the others are left
matrixMultiplyBatch(inputMatrix, cells, resultMatrix, startRow, endRow) ==
    [i \in 1 .. Len(resultMatrix) |->
        IF i - 1 >= startRow /\ i - 1 < endRow
            THEN multiplyRow(inputMatrix[i], cells)
            ELSE resultMatrix[i]]

\* StaticTranslator::performMatrixMultiplicationCpu
performMatrixMultiplicationCpu(inputMatrix, cells, resultMatrix) ==
    matrixMultiplyBatch(inputMatrix, cells, resultMatrix, 0, Len(inputMatrix))

\* StaticTranslator::validateInputAlphabet
validateInputAlphabet(words) ==
    \A n \in 1 .. Len(words) : words[n].alphabet = EVA

\* StaticTranslator::wordSetToMatrix
wordSetToMatrix(words) ==
    [n \in 1 .. Len(words) |-> words[n].binaryMatrix]

\* StaticTranslator::binaryToHebrewText, its table hebrewChars
hebrewChars ==
    <<1488, 1489, 1490, 1491, 1492, 1493, 1494, 1495, 1496, 1497, 1499,
      1500, 1502, 1504, 1505, 1506, 1508, 1510, 1511, 1512, 1513, 1514,
      1498, 1501, 1503, 1507, 1509>>

RECURSIVE binaryToHebrewTextLoop(_, _, _)
\* the loop of binaryToHebrewText over i
binaryToHebrewTextLoop(i, binaryVector, result) ==
    IF i >= Len(binaryVector) \/ i >= EvaAlphabetSize THEN result
    ELSE binaryToHebrewTextLoop(i + 1, binaryVector,
             IF binaryVector[i + 1] # 0
                 THEN Append(result, hebrewChars[i + 1]) ELSE result)

\* StaticTranslator::binaryToHebrewText
binaryToHebrewText(binaryVector) ==
    binaryToHebrewTextLoop(0, binaryVector, <<>>)

\* StaticTranslator::matrixToWordSet: one word of the target alphabet per
\* original word, made from the text of its row
matrixToWordSet(matrix, originalWords, targetAlphabet) ==
    [n \in 1 .. (IF Len(originalWords) < Len(matrix)
                     THEN Len(originalWords) ELSE Len(matrix)) |->
        Word(binaryToHebrewText(matrix[n]), targetAlphabet)]

\* StaticTranslator::translateWordSet on the CPU (useCuda = false, or no
\* CUDA device)
translateWordSet(evaWords, cells) ==
    LET inputMatrix == wordSetToMatrix(evaWords)
        zeroMatrix == [n \in 1 .. Len(inputMatrix) |->
                          [j \in 1 .. EvaAlphabetSize |-> 0]]
        resultMatrix == performMatrixMultiplicationCpu(inputMatrix, cells,
                                                       zeroMatrix)
    IN [warned |-> ~validateInputAlphabet(evaWords),
        words |-> matrixToWordSet(resultMatrix, evaWords, HEBREW)]

\* bit positions of the input vectors: both ends of the alphabet first
SamplePositions == <<0, 26, 13, 1, 25, 2>>

Positions ==
    {SamplePositions[k] :
        k \in {n \in 1 .. NumPositions : n <= Len(SamplePositions)}}

\* the 27-entry vector whose set bits are the positions in S
VectorOf(S) == [k \in 1 .. EvaAlphabetSize |-> IF (k - 1) \in S THEN 1 ELSE 0]

\* binary matrices around a generated mapping: the mapping itself (a
\* bijection), with the cell of its first row cleared, with cells added
SampleMatrices(base) ==
    {(base \ drop) \cup add :
        drop \in {{}, {c \in base : c[1] = 0}},
        add \in SUBSET {<<0, 26>>, <<26, 26>>}}

\* words of a corpus: EVA words, an empty word, a word with a character
\* outside the EVA alphabet, and a word that is not in the EVA alphabet
SampleWords ==
    <<Word(<<97>>, EVA),
      Word(<<97, 122, 32>>, EVA),
      Word(<<>>, EVA),
      Word(<<1488, 1509>>, HEBREW),
      Word(<<65, 98>>, EVA)>>

\* the corpora of at most MaxWords sample words
Corpora ==
    UNION {[1 .. n -> {SampleWords[k] : k \in 1 .. Len(SampleWords)}] :
              n \in 0 .. MaxWords}

(* ------------------------------ validation ----------------------------- *)
\* HebrewValidator::isValidHebrewBinaryVector
isValidHebrewBinaryVector(binaryVector) ==
    /\ Len(binaryVector) = EvaAlphabetSize
    /\ \A k \in 1 .. Len(binaryVector) : binaryVector[k] \in {0, 1}
    /\ \E k \in 1 .. Len(binaryVector) : binaryVector[k] = 1

\* a uint32_t as its two 16-bit halves
U32(hi, lo) == [hi |-> hi, lo |-> lo]

\* hash * base + (i + 1) in uint32_t arithmetic, base = 31
hashStep(hash, i) ==
    LET lo == hash.lo * 31 + (i + 1)
        hi == hash.hi * 31 + (lo \div 65536)
    IN U32(hi % 65536, lo % 65536)

RECURSIVE hashLoop(_, _, _)
\* the loop of binaryVectorToHash over i
hashLoop(i, binaryVector, hash) ==
    IF i >= Len(binaryVector) \/ i >= EvaAlphabetSize THEN hash
    ELSE hashLoop(i + 1, binaryVector,
                  IF binaryVector[i + 1] # 0 THEN hashStep(hash, i)
                  ELSE hash)

\* HebrewValidator::binaryVectorToHash
binaryVectorToHash(binaryVector) == hashLoop(0, binaryVector, U32(0, 0))

RECURSIVE TwoTo(_)
\* 1ULL << i
TwoTo(i) == IF i = 0 THEN 1 ELSE 2 * TwoTo(i - 1)

RECURSIVE signatureBitsLoop(_, _, _)
\* the first loop of binaryVectorToSignature: signature |= (1ULL << i)
signatureBitsLoop(i, binaryVector, signature) ==
    IF i >= Len(binaryVector) \/ i >= EvaAlphabetSize THEN signature
    ELSE signatureBitsLoop(i + 1, binaryVector,
             IF binaryVector[i + 1] # 0 THEN signature + TwoTo(i)
             ELSE signature)

RECURSIVE weightedHashLoop(_, _, _)
\* the second loop of binaryVectorToSignature: (i + 1) * (i + 1) is added
weightedHashLoop(i, binaryVector, weightedHash) ==
    IF i >= Len(binaryVector) \/ i >= EvaAlphabetSize THEN weightedHash
    ELSE weightedHashLoop(i + 1, binaryVector,
             IF binaryVector[i + 1] # 0
                 THEN weightedHash + (i + 1) * (i + 1)
                 ELSE weightedHash)

\* HebrewValidator::binaryVectorToSignature: a uint64_t as its two 32-bit
\* halves, the bit pattern below and the weighted hash above
binaryVectorToSignature(binaryVector) ==
    [hi |-> weightedHashLoop(0, binaryVector, 0),
     lo |-> signatureBitsLoop(0, binaryVector, 0)]

\* WordSet::readFromFile of the lexicon file: a Hebrew word per line that
\* is not empty
readFromFile(lines, alphabet) ==
    LET kept == SelectSeq(lines, LAMBDA line : line # <<>>)
    IN [n \in 1 .. Len(kept) |-> Word(kept[n], alphabet)]

\* HebrewValidator::initializeSharedLexicon: the lexicon of the words of
\* the file
initializeSharedLexicon(lines) ==
    LET hebrewWords == readFromFile(lines, HEBREW)
        valid == {n \in 1 .. Len(hebrewWords) :
                     isValidHebrewBinaryVector(hebrewWords[n].binaryMatrix)}
    IN IF Len(hebrewWords) = 0
           THEN [binaryHashes |-> {}, binarySignatures |-> {},
                 wordCount |-> 0, isLoaded |-> TRUE]
           ELSE [binaryHashes |->
                     {binaryVectorToHash(hebrewWords[n].binaryMatrix) :
                         n \in valid},
                 binarySignatures |->
                     {binaryVectorToSignature(hebrewWords[n].binaryMatrix) :
                         n \in valid},
                 wordCount |-> Len(hebrewWords),
                 isLoaded |-> TRUE]

\* HebrewValidator::isLexiconReady
isLexiconReady(sharedLexicon) == sharedLexicon.isLoaded

\* a double with six decimals, as a number of millionths
Scale == 1000000

\* std::log10(n) * 5.0 for n = 1 .. 8, in millionths
Log10Times5 ==
    <<0, 1505150, 2385606, 3010300, 3494850, 3890756, 4225490, 4515450>>

\* HebrewValidator::calculateScore
calculateScore(result) ==
    IF result.totalWords = 0 THEN 0
    ELSE LET baseScore == result.matchPercentage
             matchBonus == Log10Times5[result.matchedWords + 1]
             lengthPenalty == IF result.totalWords < 10
                                  THEN (10 - result.totalWords) * 2 * Scale
                                  ELSE 0
             finalScore == baseScore + matchBonus - lengthPenalty
             capped == IF 100 * Scale < finalScore THEN 100 * Scale
                       ELSE finalScore
         IN IF capped < 0 THEN 0 ELSE capped

\* HebrewValidator::ValidationResult::ValidationResult
ValidationResult ==
    [totalWords |-> 0, matchedWords |-> 0, matchPercentage |-> 0,
     score |-> 0, isHighScore |-> FALSE]

\* mutant: a word is counted on a hash hit alone
matchedIndicesHashOnly(sharedLexicon, translatedWords) ==
    {n \in 1 .. Len(translatedWords) :
        LET binaryVector == translatedWords[n].binaryMatrix
        IN /\ isValidHebrewBinaryVector(binaryVector)
           /\ binaryVectorToHash(binaryVector) \in sharedLexicon.binaryHashes}

\* the words of validateTranslation's loop that are counted as matches
matchedIndices(sharedLexicon, translatedWords) ==
    {n \in 1 .. Len(translatedWords) :
        LET binaryVector == translatedWords[n].binaryMatrix
        IN /\ isValidHebrewBinaryVector(binaryVector)
           /\ binaryVectorToHash(binaryVector) \in sharedLexicon.binaryHashes
           /\ binaryVectorToSignature(binaryVector)
                  \in sharedLexicon.binarySignatures}

\* mutant: an empty corpus is scored like any other
validateTranslationScoresEmpty(sharedLexicon, config, translatedWords) ==
    LET totalWords == Len(translatedWords)
    IN IF ~isLexiconReady(sharedLexicon)
           THEN [ValidationResult EXCEPT !.totalWords = totalWords]
           ELSE LET matchedWords ==
                        Cardinality(matchedIndices(sharedLexicon,
                                                   translatedWords))
                    counted == [ValidationResult EXCEPT
                                   !.totalWords = totalWords,
                                   !.matchedWords = matchedWords,
                                   !.matchPercentage =
                                       IF totalWords > 0
                                           THEN (matchedWords * 100 * Scale)
                                                    \div totalWords
                                           ELSE 0]
                    score == calculateScore(counted)
                IN [counted EXCEPT
                       !.score = score,
                       !.isHighScore = (score >= config.scoreThreshold)]

\* HebrewValidator::validateTranslation
validateTranslation(sharedLexicon, config, translatedWords) ==
    LET totalWords == Len(translatedWords)
    IN IF ~isLexiconReady(sharedLexicon) \/ totalWords = 0
           THEN [ValidationResult EXCEPT !.totalWords = totalWords]
           ELSE LET matchedWords ==
                        Cardinality(matchedIndices(sharedLexicon,
                                                   translatedWords))
                    counted == [ValidationResult EXCEPT
                                   !.totalWords = totalWords,
                                   !.matchedWords = matchedWords,
                                   !.matchPercentage =
                                       IF totalWords > 0
                                           THEN (matchedWords * 100 * Scale)
                                                    \div totalWords
                                           ELSE 0]
                    score == calculateScore(counted)
                IN [counted EXCEPT
                       !.score = score,
                       !.isHighScore = (score >= config.scoreThreshold)]

\* HebrewValidator::appendResultToFile: one block is written at the end of
\* the results file, unless the file cannot be opened
appendResultToFile(file, entry, opens) ==
    IF ~opens THEN file ELSE Append(file, entry)

\* HebrewValidator::saveValidationResult: the entry that is appended
ValidationEntry(result, mappingId, mappingData) ==
    [mappingId |-> mappingId, score |-> result.score,
     matchedWords |-> result.matchedWords, totalWords |-> result.totalWords,
     mappingData |-> mappingData]

\* mutant: the entry is appended whatever the result is
validateTranslationWithMappingAlwaysSaves(sharedLexicon, config, file, opens, translatedWords, mappingId, mappingData) ==
    LET result == validateTranslation(sharedLexicon, config, translatedWords)
    IN [result |-> result,
        file |-> appendResultToFile(file,
                     ValidationEntry(result, mappingId, mappingData), opens)]

\* HebrewValidator::validateTranslationWithMapping: the result, and the
\* results file after the call; opens tells whether the file can be opened
validateTranslationWithMapping(sharedLexicon, config, file, opens, translatedWords, mappingId, mappingData) ==
    LET result == validateTranslation(sharedLexicon, config, translatedWords)
    IN [result |-> result,
        file |-> IF result.isHighScore /\ config.enableResultsSaving
                     THEN appendResultToFile(file,
                              ValidationEntry(result, mappingId, mappingData),
                              opens)
                     ELSE file]

\* lines of a lexicon file: aleph; a word of seven letters; a line without
\* any Hebrew letter
LexiconLines ==
    <<<<1488>>,
      <<1491, 1492, 1493, 1505, 1511, 1498, 1501>>,
      <<120>>>>

\* the lexicon files: the lines of LexiconLines whose number is in S
LexiconFile(S) ==
    SelectSeq(LexiconLines,
              LAMBDA line : \E k \in S : LexiconLines[k] = line)

\* translated words: aleph; a word of eight letters whose 32-bit hash is
\* that of the seven-letter word of the lexicon; that seven-letter word; a
\* word without letters; bet
TranslatedSamples ==
    <<Word(<<1488>>, HEBREW),
      Word(<<1488, 1489, 1493, 1497, 1499, 1500, 1502, 1508>>, HEBREW),
      Word(<<1491, 1492, 1493, 1505, 1511, 1498, 1501>>, HEBREW),
      Word(<<>>, HEBREW),
      Word(<<1489>>, HEBREW)>>

\* the translated corpora of at most MaxWords words
TranslatedCorpora ==
    UNION {[1 .. n -> {TranslatedSamples[k] :
                          k \in 1 .. Len(TranslatedSamples)}] :
              n \in 0 .. MaxWords}

\* configured score thresholds, in millionths: 0, the default 25.0, 90.0
Thresholds == {0, 25 * Scale, 90 * Scale}

(* ------------------------- scheduler-level actions --------------------- *)
Install(g) ==
    /\ state' = g.state
    /\ blockWindow' = g.blockWindow
    /\ threadToBlock' = g.threadToBlock
    /\ stateFile' = g.file
    /\ createdLog' = g.createdLog

Bump(n) == IF n >= 2 THEN 2 ELSE n + 1

\* a caller invokes getNextBlock(t)
GetNextBlock(t) ==
    LET r == getNextBlock(G, t)
    IN /\ Install(r)
       /\ returned' = IF r.ret = NoBlock THEN returned
                      ELSE [returned EXCEPT ![r.ret] = Bump(@)]
       /\ lastOp' = "getNextBlock"
       /\ lastRet' = r.ret
       /\ lastPath' = IF r.ret = NoBlock THEN "none"
                      ELSE IF r.state.nextBlockToGenerate
                                > state.nextBlockToGenerate THEN "created"
                      ELSE "reassigned"
       /\ UNCHANGED <<enableStateFile, fnCall, reportVars>>

\* a caller invokes completeCurrentBlock(t)
CompleteCurrentBlock(t) ==
    /\ Install(completeCurrentBlock(G, t))
    /\ lastOp' = "completeCurrentBlock"
    /\ lastRet' = NoBlock
    /\ lastPath' = "none"
    /\ UNCHANGED <<enableStateFile, returned, fnCall, reportVars>>

\* a caller invokes reset()
Reset ==
    /\ Install(reset(G))
    /\ returned' = ZeroReturned
    /\ lastOp' = "reset"
    /\ lastRet' = NoBlock
    /\ lastPath' = "none"
    /\ UNCHANGED <<enableStateFile, fnCall, reportVars>>

\* a caller invokes saveCurrentState()
SaveCurrentState ==
    /\ Install(Save(G))
    /\ lastOp' = "saveCurrentState"
    /\ lastRet' = NoBlock
    /\ lastPath' = "none"
    /\ UNCHANGED <<enableStateFile, returned, fnCall, reportVars>>

\* a new scheduler is constructed over file f; log is the creation history
\* the file stands for
Construct(f, log, how) ==
    LET c == Constructor(f)
    IN /\ state' = c.state
       /\ blockWindow' = c.blockWindow
       /\ threadToBlock' = c.threadToBlock
       /\ stateFile' = f
       /\ createdLog' = IF enableStateFile /\ f.exists THEN log ELSE <<>>
       /\ returned' = ZeroReturned
       /\ lastOp' = how
       /\ lastRet' = NoBlock
       /\ lastPath' = "none"
       /\ UNCHANGED <<enableStateFile, fnCall, reportVars>>

\* orderly shutdown (~MappingGenerator saves) followed by a new scheduler
ShutdownRestart ==
    LET d == Save(G) IN Construct(d.file, d.createdLog, "shutdownRestart")

\* the process is killed inside handler run r, right after one of its
\* checkpoint writes but the last (a kill after the last write is the
\* handler followed by a kill between handlers)
KillInside(r) ==
    \E k \in 1 .. (Len(r.snaps) - 1) :
        Construct(r.snaps[k].file, r.snaps[k].createdLog, "killRestart")

\* the process is killed between two handlers or inside one, and a new
\* scheduler is constructed
KillRestart ==
    \/ Construct(stateFile, createdLog, "killRestart")
    \/ \E t \in Threads : KillInside(getNextBlock(G, t))
    \/ \E t \in Threads : KillInside(completeCurrentBlock(G, t))

SchedInit ==
    /\ state = GeneratorState
    /\ blockWindow = <<>>
    /\ threadToBlock = EmptyMap
    /\ enableStateFile \in BOOLEAN
    /\ stateFile = NoFile
    /\ returned = ZeroReturned
    /\ createdLog = <<>>
    /\ lastOp = "init"
    /\ lastRet = NoBlock
    /\ lastPath = "none"
    /\ fnCall = NoCall

\* the worker pool before ThreadManager::start
PoolIdle ==
    /\ pc = [w \in Threads |-> "none"]
    /\ wBlock = [w \in Threads |-> NoBlock]
    /\ wDone = [w \in Threads |-> 0]
    /\ shouldStop = FALSE
    /\ signalReceived = FALSE
    /\ isRunning = FALSE
    /\ mainPc = "idle"
    /\ kills = 0
    /\ doneBlocks = {}

\* a std::mutex nobody holds
Unlocked == 0 - 1

\* no ValidationEntry, no StatsMessage
NoEntry == [mappingId |-> 0 - 1]
NoMessage == [type |-> "none"]

\* the validators of the workers before any validation
ResultsIdle ==
    /\ vpc = [w \in Threads |-> "idle"]
    /\ vEntry = [w \in Threads |-> NoEntry]
    /\ resultsMutex = [v \in Threads |-> Unlocked]
    /\ resultsFile = <<>>
    /\ mappingCounter = 0

\* StatsProvider's statistics data as its member initialisers set them
ZeroCounters ==
    [totalMappingsProcessed |-> 0, totalWordsValidated |-> 0,
     highestScore |-> 0, highScoreCount |-> 0,
     activeThreads |-> ToU64(0)]

\* StatsProvider::StatsProvider
StatsIdle ==
    /\ messageQueue = <<>>
    /\ queueMutex = FALSE
    /\ statsShouldStop = FALSE
    /\ statsPc = "none"
    /\ message = NoMessage
    /\ statsMain = "idle"
    /\ counters = ZeroCounters
    /\ submitted = {}
    /\ applied = {}
    /\ lastHandled = NoMessage
    /\ runs = 0

\* no console event has arrived, the process runs
ManagerIdle ==
    /\ handlerPc = "none"
    /\ handlerThread = "none"
    /\ aborted = FALSE

ReportIdle == ResultsIdle /\ StatsIdle /\ ManagerIdle

vars == <<schedVars, poolVars, reportVars>>

Init == SchedInit /\ PoolIdle /\ ReportIdle

\* the scheduler driven through its public operations by arbitrary callers
Next ==
    \/ \E t \in Threads : GetNextBlock(t) /\ UNCHANGED poolVars
    \/ \E t \in Threads : CompleteCurrentBlock(t) /\ UNCHANGED poolVars
    \/ Reset /\ UNCHANGED poolVars
    \/ SaveCurrentState /\ UNCHANGED poolVars
    \/ ShutdownRestart /\ UNCHANGED poolVars
    \/ KillRestart /\ UNCHANGED poolVars

Spec == Init /\ [][Next]_vars

(* ----------------------- kills inside a checkpoint write --------------- *)
\* the constructor runs over file f and the exception of a loader leaves the
\* program without a scheduler
ConstructorThrows(f) ==
    /\ state' = GeneratorState
    /\ blockWindow' = <<>>
    /\ threadToBlock' = EmptyMap
    /\ stateFile' = f
    /\ createdLog' = <<>>
    /\ returned' = ZeroReturned
    /\ lastOp' = "constructorThrew"
    /\ lastRet' = NoBlock
    /\ lastPath' = "none"
    /\ UNCHANGED <<enableStateFile, fnCall, reportVars>>

\* the process is killed while handler run r writes one of its checkpoints,
\* and the program is started again
KillDuringWrite(r) ==
    \E k \in 1 .. Len(r.snaps) :
        \E text \in TornTexts(r.snaps[k].file.lines) :
            LET f == [exists |-> TRUE, lines |-> text]
            IN IF loadThrows(text)
                   THEN ConstructorThrows(f)
                   ELSE Construct(f, r.snaps[k].createdLog, "tornRestart")

\* a kill inside the write of any handler that saves
TornRestart ==
    /\ kills < MaxKills
    /\ kills' = kills + 1
    /\ \/ \E t \in Threads : KillDuringWrite(getNextBlock(G, t))
       \/ \E t \in Threads : KillDuringWrite(completeCurrentBlock(G, t))
       \/ KillDuringWrite(Save(G))
    /\ UNCHANGED <<pc, wBlock, wDone, shouldStop, signalReceived, isRunning,
                   mainPc, doneBlocks>>

\* a scheduler exists: the constructor has returned
Constructed == lastOp # "constructorThrew"

CrashNext ==
    \/ Constructed /\ Next
    \/ Constructed /\ TornRestart

\* the scheduler under its callers, with kills at any point of a write
CrashSpec == Init /\ [][CrashNext]_vars

(* ------------------------------ worker pool ---------------------------- *)
\* MappingGenerator::generateBlock: number of mappings of block b
GenSize(b) ==
    LET startIndex == b * blockSize
        endIndex == IF startIndex + blockSize > TOTAL_COMBINATIONS
                        THEN TOTAL_COMBINATIONS
                        ELSE startIndex + blockSize
    IN IF endIndex > startIndex THEN endIndex - startIndex ELSE 0

SetPc(w, p) == pc' = [pc EXCEPT ![w] = p]

\* ThreadManager::start, entered by the thread that owns the manager
PStart ==
    /\ mainPc \in {"idle", "stopped"}
    /\ ~isRunning
    /\ shouldStop' = FALSE
    /\ signalReceived' = FALSE
    /\ isRunning' = TRUE
    /\ pc' = [w \in Threads |-> "loop"]
    /\ mainPc' = "waiting"
    /\ UNCHANGED <<schedVars, reportVars, wBlock, wDone, kills, doneBlocks>>

\* workerThreadFunction: "while (!shouldStop.load() && !signalReceived.load())"
WLoop(w) ==
    /\ pc[w] = "loop"
    /\ SetPc(w, IF shouldStop \/ signalReceived THEN "done" ELSE "gen")
    /\ UNCHANGED <<schedVars, reportVars, wBlock, wDone, shouldStop, signalReceived,
                   isRunning, mainPc, kills, doneBlocks>>

\* workerThreadFunction: "if (mappingGenerator->isGenerationComplete()) break;"
WGen(w) ==
    /\ pc[w] = "gen"
    /\ SetPc(w, IF isGenerationComplete THEN "done" ELSE "acquire")
    /\ UNCHANGED <<schedVars, reportVars, wBlock, wDone, shouldStop, signalReceived,
                   isRunning, mainPc, kills, doneBlocks>>

\* processMappingBlock: the worker asks the scheduler for a block; without
\* one it returns to the loop of workerThreadFunction
WAcquire(w) ==
    /\ pc[w] = "acquire"
    /\ GetNextBlock(w)
    /\ SetPc(w, IF lastRet' = NoBlock THEN "loop" ELSE "proc")
    /\ wBlock' = [wBlock EXCEPT ![w] = lastRet']
    /\ wDone' = [wDone EXCEPT ![w] = 0]
    /\ UNCHANGED <<shouldStop, signalReceived, isRunning, mainPc, kills,
                   doneBlocks>>

\* processMappingBlock: one turn of the loop over the block's mappings; on
\* cancellation the worker returns without completing the block
WProcess(w) ==
    /\ pc[w] = "proc"
    /\ IF shouldStop \/ signalReceived
           THEN /\ SetPc(w, "loop")
                /\ wBlock' = [wBlock EXCEPT ![w] = NoBlock]
                /\ wDone' = [wDone EXCEPT ![w] = 0]
           ELSE /\ wDone' = [wDone EXCEPT ![w] = @ + 1]
                /\ SetPc(w, IF wDone[w] + 1 >= GenSize(wBlock[w])
                                THEN "complete" ELSE "proc")
                /\ UNCHANGED wBlock
    /\ UNCHANGED <<schedVars, reportVars, shouldStop, signalReceived, isRunning, mainPc,
                   kills, doneBlocks>>

\* processMappingBlock: every mapping is processed, the worker completes the
\* block and returns to the loop of workerThreadFunction
WComplete(w) ==
    /\ pc[w] = "complete"
    /\ CompleteCurrentBlock(w)
    /\ doneBlocks' = doneBlocks \cup {wBlock[w]}
    /\ SetPc(w, "loop")
    /\ wBlock' = [wBlock EXCEPT ![w] = NoBlock]
    /\ wDone' = [wDone EXCEPT ![w] = 0]
    /\ UNCHANGED <<shouldStop, signalReceived, isRunning, mainPc, kills>>

WorkerStep(w) ==
    WLoop(w) \/ WGen(w) \/ WAcquire(w) \/ WProcess(w) \/ WComplete(w)

\* ThreadManager::signalHandler: the flag is set and stop() raises shouldStop
Signal ==
    /\ mainPc = "waiting"
    /\ kills = 0
    /\ signalReceived' = TRUE
    /\ shouldStop' = TRUE
    /\ UNCHANGED <<schedVars, reportVars, pc, wBlock, wDone, isRunning, mainPc, kills,
                   doneBlocks>>

\* ThreadManager::stop is entered by the owner: shouldStop is raised, then
\* the caller joins the workers
PStop ==
    /\ mainPc = "waiting"
    /\ kills = 0
    /\ isRunning
    /\ shouldStop' = TRUE
    /\ mainPc' = "joining"
    /\ UNCHANGED <<schedVars, reportVars, pc, wBlock, wDone, signalReceived, isRunning,
                   kills, doneBlocks>>

\* ThreadManager::stop returns: every worker is joined
PJoin ==
    /\ mainPc = "joining"
    /\ \A w \in Threads : pc[w] = "done"
    /\ pc' = [w \in Threads |-> "none"]
    /\ isRunning' = FALSE
    /\ mainPc' = "stopped"
    /\ UNCHANGED <<schedVars, reportVars, wBlock, wDone, shouldStop, signalReceived,
                   kills, doneBlocks>>

\* a new process: ThreadManager and its members as constructed
PoolFresh ==
    /\ pc' = [w \in Threads |-> "none"]
    /\ wBlock' = [w \in Threads |-> NoBlock]
    /\ wDone' = [w \in Threads |-> 0]
    /\ shouldStop' = FALSE
    /\ signalReceived' = FALSE
    /\ isRunning' = FALSE
    /\ mainPc' = "idle"

\* the stopped program exits (the scheduler's destructor saves) and is run
\* again: ThreadManager::initialize constructs the scheduler from the file
PExitRestart ==
    /\ mainPc = "stopped"
    /\ ShutdownRestart
    /\ PoolFresh
    /\ UNCHANGED <<kills, doneBlocks>>

\* the process is killed, between two steps or inside a scheduler handler a
\* worker is running, and is run again
PKill ==
    /\ kills < MaxKills
    /\ kills' = kills + 1
    /\ PoolFresh
    /\ \/ /\ Construct(stateFile, createdLog, "killRestart")
          /\ UNCHANGED doneBlocks
       \/ \E w \in Threads :
            /\ pc[w] = "acquire"
            /\ KillInside(getNextBlock(G, w))
            /\ UNCHANGED doneBlocks
       \/ \E w \in Threads :
            /\ pc[w] = "complete"
            /\ KillInside(completeCurrentBlock(G, w))
            /\ doneBlocks' = doneBlocks \cup {wBlock[w]}

\* ThreadManager::initialize sets genConfig.enableStateFile = true
PoolInit == SchedInit /\ PoolIdle /\ ReportIdle /\ enableStateFile

PoolNext ==
    \/ PStart
    \/ \E w \in Threads : WLoop(w)
    \/ \E w \in Threads : WGen(w)
    \/ \E w \in Threads : WAcquire(w)
    \/ \E w \in Threads : WProcess(w)
    \/ \E w \in Threads : WComplete(w)
    \/ Signal
    \/ PStop
    \/ PJoin
    \/ PExitRestart
    \/ PKill

WorkerActive == {"loop", "gen", "acquire", "proc", "complete"}

\* a step of worker w seen on the worker's own position and progress: among
\* the steps of PoolNext it is exactly WorkerStep(w) (RanIsStep below)
WorkerRan(w) ==
    /\ pc[w] \in WorkerActive
    /\ kills' = kills
    /\ \E p \in WorkerActive \cup {"done"}, d \in 0 .. blockSize :
          /\ <<p, d>> # <<pc[w], wDone[w]>>
          /\ pc' = [pc EXCEPT ![w] = p]
          /\ wDone' = [wDone EXCEPT ![w] = d]

\* every worker thread, the joining owner and a program waiting to be
\* started are scheduled fairly
PoolFairness ==
    /\ \A w \in Threads : WF_<<pc, wDone, kills>>(WorkerRan(w))
    /\ WF_vars(PStart)
    /\ WF_vars(PJoin)

PoolSpec == PoolInit /\ [][PoolNext]_vars /\ PoolFairness

\* the fairness condition is on the steps of the worker threads
RanIsStep == [][\A w \in Threads : WorkerRan(w) <=> WorkerStep(w)]_vars

(* ----------------- member functions without side effect ---------------- *)
\* indexToPermutation is called with two global indices
CallIndexToPermutation ==
    /\ fnCall = NoCall
    /\ \E a \in 1 .. NumSamples, b \in 1 .. NumSamples :
          fnCall' = [op |-> "indexToPermutation",
                     i |-> SampleIndex(a),
                     j |-> SampleIndex(b),
                     permI |-> indexToPermutation(SampleIndex(a)),
                     permJ |-> indexToPermutation(SampleIndex(b))]
    /\ UNCHANGED <<state, blockWindow, threadToBlock, enableStateFile,
                   stateFile, returned, createdLog, lastOp, lastRet,
                   lastPath, poolVars, reportVars>>

\* generateBlock is called for a block index, under a configured block size
CallGenerateBlock ==
    /\ fnCall = NoCall
    /\ \E size \in 1 .. MaxBlockSize, b \in 0 .. TOTAL_COMBINATIONS :
          fnCall' = [op |-> "generateBlock",
                     blockIndex |-> b,
                     size |-> size,
                     block |-> generateBlockOfSize(b, size)]
    /\ UNCHANGED <<state, blockWindow, threadToBlock, enableStateFile,
                   stateFile, returned, createdLog, lastOp, lastRet,
                   lastPath, poolVars, reportVars>>

\* getTotalCombinations is called
CallGetTotalCombinations ==
    /\ fnCall = NoCall
    /\ fnCall' = [op |-> "getTotalCombinations",
                  total |-> getTotalCombinations]
    /\ UNCHANGED <<state, blockWindow, threadToBlock, enableStateFile,
                   stateFile, returned, createdLog, lastOp, lastRet,
                   lastPath, poolVars, reportVars>>

\* factorial is called, with an argument indexToPermutation passes
\* (position - 1 for position = 27 .. 1)
CallFactorial ==
    /\ fnCall = NoCall
    /\ \E n \in 0 .. (EvaAlphabetSize - 1) :
          fnCall' = [op |-> "factorial", n |-> n, result |-> factorialU64(n)]
    /\ UNCHANGED <<state, blockWindow, threadToBlock, enableStateFile,
                   stateFile, returned, createdLog, lastOp, lastRet,
                   lastPath, poolVars, reportVars>>

\* generateSingleMapping is called with a global index
CallGenerateSingleMapping ==
    /\ fnCall = NoCall
    /\ \E a \in 1 .. NumSamples :
          LET r == generateSingleMapping(SampleIndex(a))
          IN fnCall' = [op |-> "generateSingleMapping",
                        globalIndex |-> SampleIndex(a),
                        made |-> r.made,
                        mapping |-> r.mapping]
    /\ UNCHANGED <<state, blockWindow, threadToBlock, enableStateFile,
                   stateFile, returned, createdLog, lastOp, lastRet,
                   lastPath, poolVars, reportVars>>

\* a mapping was generated: Mapping::applyMapping is called on a matrix
\* around it with an input vector
CallApplyMapping ==
    /\ fnCall.op = "generateSingleMapping"
    /\ fnCall.made
    /\ \E m \in SampleMatrices(fnCall.mapping), S \in SUBSET Positions :
          fnCall' = [op |-> "applyMapping",
                     matrix |-> m,
                     inputVector |-> VectorOf(S),
                     result |-> applyMapping(m, VectorOf(S))]
    /\ UNCHANGED <<state, blockWindow, threadToBlock, enableStateFile,
                   stateFile, returned, createdLog, lastOp, lastRet,
                   lastPath, poolVars, reportVars>>

\* a mapping was generated: StaticTranslator::translateWordSet is called
\* with a corpus and a matrix around the mapping
CallTranslateWordSet ==
    /\ fnCall.op = "generateSingleMapping"
    /\ fnCall.made
    /\ \E m \in SampleMatrices(fnCall.mapping), evaWords \in Corpora :
          LET r == translateWordSet(evaWords, m)
          IN fnCall' = [op |-> "translateWordSet",
                        matrix |-> m,
                        evaWords |-> evaWords,
                        warned |-> r.warned,
                        words |-> r.words]
    /\ UNCHANGED <<state, blockWindow, threadToBlock, enableStateFile,
                   stateFile, returned, createdLog, lastOp, lastRet,
                   lastPath, poolVars, reportVars>>

\* an entry an earlier validation left in the results file
OldEntry ==
    [mappingId |-> 3, score |-> 90 * Scale, matchedWords |-> 1,
     totalWords |-> 1, mappingData |-> "old"]

\* validateTranslationWithMapping is called by a validator whose lexicon
\* was built from a lexicon file, with a mapping id, the mapping's
\* descriptor and the results file as it is
CallValidateTranslationWithMapping ==
    /\ fnCall = NoCall
    /\ \E S \in SUBSET (1 .. Len(LexiconLines)),
          translatedWords \in TranslatedCorpora,
          threshold \in Thresholds,
          saving \in BOOLEAN,
          id \in {<<0, "", <<>>>>, <<7, "EVA: a b HEB: b a", <<OldEntry>>>>},
          opens \in BOOLEAN :
          LET config == [scoreThreshold |-> threshold,
                         enableResultsSaving |-> saving]
              file == id[3]
              r == validateTranslationWithMapping(
                       initializeSharedLexicon(LexiconFile(S)), config, file,
                       opens, translatedWords, id[1], id[2])
          IN fnCall' = [op |-> "validateTranslationWithMapping",
                        lexiconLines |-> LexiconFile(S),
                        config |-> config,
                        translatedWords |-> translatedWords,
                        mappingId |-> id[1],
                        mappingData |-> id[2],
                        fileBefore |-> file,
                        opens |-> opens,
                        result |-> r.result,
                        fileAfter |-> r.file]
    /\ UNCHANGED <<state, blockWindow, threadToBlock, enableStateFile,
                   stateFile, returned, createdLog, lastOp, lastRet,
                   lastPath, poolVars, reportVars>>

PureNext ==
    \/ CallIndexToPermutation
    \/ CallGenerateBlock
    \/ CallGetTotalCombinations
    \/ CallFactorial
    \/ CallGenerateSingleMapping
    \/ CallApplyMapping
    \/ CallTranslateWordSet
    \/ CallValidateTranslationWithMapping

\* the member functions that do not change the scheduler, called with
\* arbitrary arguments; they keep no state, so one call is made, or a
\* mapping is generated and then applied
PureSpec == Init /\ [][PureNext]_vars

(* ------------------- workers appending to the results file ------------- *)
\* VoynichDecoder::workerThreadFunction: the configuration of the validator
\* every worker constructs for itself (the default threshold 25.0)
validatorConfig ==
    [scoreThreshold |-> 25 * Scale, enableResultsSaving |-> TRUE]

\* the validator a worker uses: its own
validatorOf(w) == w

\* the lexicon every validator reads
sharedLexicon == initializeSharedLexicon(LexiconLines)

\* translations of the corpus under the mappings the workers try: with a
\* match, without, with two
WorkerTranslations ==
    {<<TranslatedSamples[1]>>, <<TranslatedSamples[5]>>,
     <<TranslatedSamples[1], TranslatedSamples[3]>>}

\* the worker takes the next mapping id and validates the translation:
\* validateTranslationWithMapping up to the call of saveValidationResult
VValidate(w) ==
    /\ vpc[w] = "idle"
    /\ mappingCounter < MaxMappings
    /\ mappingCounter' = mappingCounter + 1
    /\ \E translatedWords \in WorkerTranslations :
          LET result == validateTranslation(sharedLexicon, validatorConfig,
                                            translatedWords)
          IN IF result.isHighScore /\ validatorConfig.enableResultsSaving
                 THEN /\ vpc' = [vpc EXCEPT ![w] = "save"]
                      /\ vEntry' = [vEntry EXCEPT ![w] =
                             ValidationEntry(result, mappingCounter, "viz")]
                 ELSE UNCHANGED <<vpc, vEntry>>
    /\ UNCHANGED <<resultsMutex, resultsFile>>

\* saveValidationResult: std::lock_guard on the validator's resultsMutex
VLock(w) ==
    /\ vpc[w] = "save"
    /\ resultsMutex[validatorOf(w)] = Unlocked
    /\ resultsMutex' = [resultsMutex EXCEPT ![validatorOf(w)] = w]
    /\ vpc' = [vpc EXCEPT ![w] = "append"]
    /\ UNCHANGED <<vEntry, resultsFile, mappingCounter>>

\* appendResultToFile: the results file is opened for appending, or cannot
\* be opened
VOpen(w) ==
    /\ vpc[w] = "append"
    /\ \E opens \in BOOLEAN :
          vpc' = [vpc EXCEPT ![w] = IF opens THEN "write" ELSE "unlock"]
    /\ UNCHANGED <<vEntry, resultsMutex, resultsFile, mappingCounter>>

\* appendResultToFile: the block is written and the file is closed
VWrite(w) ==
    /\ vpc[w] = "write"
    /\ resultsFile' = appendResultToFile(resultsFile, vEntry[w], TRUE)
    /\ vpc' = [vpc EXCEPT ![w] = "unlock"]
    /\ UNCHANGED <<vEntry, resultsMutex, mappingCounter>>

\* saveValidationResult returns: the lock_guard releases the mutex
VUnlock(w) ==
    /\ vpc[w] = "unlock"
    /\ resultsMutex' = [resultsMutex EXCEPT ![validatorOf(w)] = Unlocked]
    /\ vpc' = [vpc EXCEPT ![w] = "idle"]
    /\ vEntry' = [vEntry EXCEPT ![w] = NoEntry]
    /\ UNCHANGED <<resultsFile, mappingCounter>>

ResultsNext ==
    \/ \E w \in Threads : VValidate(w) /\ UNCHANGED <<schedVars, poolVars, statsVars, managerVars>>
    \/ \E w \in Threads : VLock(w) /\ UNCHANGED <<schedVars, poolVars, statsVars, managerVars>>
    \/ \E w \in Threads : VOpen(w) /\ UNCHANGED <<schedVars, poolVars, statsVars, managerVars>>
    \/ \E w \in Threads : VWrite(w) /\ UNCHANGED <<schedVars, poolVars, statsVars, managerVars>>
    \/ \E w \in Threads : VUnlock(w) /\ UNCHANGED <<schedVars, poolVars, statsVars, managerVars>>

\* the workers of VoynichDecoder validating mappings, each with its own
\* validator, all with the same results file
ResultsSpec == Init /\ [][ResultsNext]_vars

(* --------------------------- statistics provider ----------------------- *)
\* std::atomic<size_t>::fetch_add(1)
RECURSIVE PlusOneFrom(_, _)
PlusOneFrom(a, i) ==
    IF i > Len(a) THEN <<1>>
    ELSE IF a[i] = 9 THEN <<0>> \o PlusOneFrom(a, i + 1)
    ELSE <<a[i] + 1>> \o SubSeq(a, i + 1, Len(a))

\* std::atomic<size_t>::fetch_add(1): the new value
sizeFetchAdd(a) == WrapU64(PlusOneFrom(a, 1))

\* std::atomic<size_t>::fetch_sub(1): the new value
sizeFetchSub(a) ==
    IF a = ToU64(0) THEN Minus(TwoTo64, ToU64(1)) ELSE Minus(a, ToU64(1))

\* scores the workers report
Scores == {20 * Scale, 90 * Scale}

\* the messages of StatsProvider.h, without the fields no handler reads
MappingProcessedMessage(id, wordsValidated, score) ==
    [type |-> "MAPPING_PROCESSED", id |-> id,
     wordsValidated |-> wordsValidated, score |-> score]

BatchStatsMessage(id, mappings, words, score, hasHigh) ==
    [type |-> "BATCH_STATS", id |-> id, mappingsProcessed |-> mappings,
     wordsValidated |-> words, highestScore |-> score,
     hasHighScore |-> hasHigh]

HighScoreMessage(id, score) ==
    [type |-> "HIGH_SCORE_FOUND", id |-> id, score |-> score]

ThreadLifecycleMessage(id, type) == [type |-> type, id |-> id]

StatsMessage(id, type) == [type |-> type, id |-> id]

\* the number the model gives the next message, to tell messages apart
NextId == Cardinality(submitted) + 1

\* the submit functions: the message is pushed under queueMutex
Push(msg) ==
    /\ ~queueMutex
    /\ messageQueue' = Append(messageQueue, msg)

\* a worker or the manager submits while the provider runs and before
\* stop() is called (ThreadManager::stop joins the workers first)
Submit(msg) ==
    /\ statsMain = "started"
    /\ Cardinality(submitted) < MaxMessages
    /\ Push(msg)
    /\ submitted' = submitted \cup {msg.id}
    /\ UNCHANGED <<queueMutex, statsShouldStop, statsPc, message, statsMain,
                   counters, applied, lastHandled, runs>>

submitMappingProcessed ==
    \E score \in Scores : Submit(MappingProcessedMessage(NextId, 1, score))

submitBatchStats ==
    \E score \in Scores, hasHigh \in BOOLEAN :
        Submit(BatchStatsMessage(NextId, 2, 2, score, hasHigh))

submitHighScore ==
    \E score \in Scores : Submit(HighScoreMessage(NextId, score))

submitThreadStarted == Submit(ThreadLifecycleMessage(NextId, "THREAD_STARTED"))

submitThreadCompleted ==
    Submit(ThreadLifecycleMessage(NextId, "THREAD_COMPLETED"))

requestStatusUpdate == Submit(StatsMessage(NextId, "STATUS_UPDATE_REQUEST"))

\* StatsProvider::start, when the statistics thread is not joinable
StatsStart ==
    /\ statsMain \in {"idle", "returned"}
    /\ runs < MaxRuns
    /\ runs' = runs + 1
    /\ statsShouldStop' = FALSE
    /\ counters' = ZeroCounters
    /\ statsPc' = "top"
    /\ statsMain' = "started"
    /\ UNCHANGED <<messageQueue, queueMutex, message, submitted, applied,
                   lastHandled>>

\* StatsProvider::stop: shouldStop = true
StatsStopFlag ==
    /\ statsMain = "started"
    /\ statsShouldStop' = TRUE
    /\ statsMain' = "stopping"
    /\ UNCHANGED <<messageQueue, queueMutex, statsPc, message, counters,
                   submitted, applied, lastHandled, runs>>

\* StatsProvider::stop: the SHUTDOWN message is pushed
StatsStopPush ==
    /\ statsMain = "stopping"
    /\ Push(StatsMessage(0, "SHUTDOWN"))
    /\ statsMain' = "joining"
    /\ UNCHANGED <<queueMutex, statsShouldStop, statsPc, message, counters,
                   submitted, applied, lastHandled, runs>>

\* StatsProvider::stop: statsThread.join() and the return
StatsStopJoin ==
    /\ statsMain = "joining"
    /\ statsPc = "exited"
    /\ statsPc' = "none"
    /\ statsMain' = "returned"
    /\ UNCHANGED <<messageQueue, queueMutex, statsShouldStop, message,
                   counters, submitted, applied, lastHandled, runs>>

\* the predicate of the wait in processMessages
WaitPredicate == messageQueue # <<>> \/ statsShouldStop

\* processMessages: while (!shouldStop.load()), then the unique_lock
CTop ==
    /\ statsPc = "top"
    /\ IF statsShouldStop
           THEN statsPc' = "exited" /\ UNCHANGED queueMutex
           ELSE /\ ~queueMutex
                /\ queueMutex' = TRUE
                /\ statsPc' = "wait"
    /\ UNCHANGED <<messageQueue, statsShouldStop, message, statsMain,
                   counters, submitted, applied, lastHandled, runs>>

\* processMessages: wait_for is entered: it returns at once when the
\* predicate holds, and releases the mutex to block otherwise
CWait ==
    /\ statsPc = "wait"
    /\ IF WaitPredicate
           THEN statsPc' = "inner" /\ UNCHANGED queueMutex
           ELSE statsPc' = "blocked" /\ queueMutex' = FALSE
    /\ UNCHANGED <<messageQueue, statsShouldStop, message, statsMain,
                   counters, submitted, applied, lastHandled, runs>>

\* processMessages: wait_for wakes up (notified, or timed out), takes the
\* mutex again and returns the value of the predicate
CWake ==
    /\ statsPc = "blocked"
    /\ ~queueMutex
    /\ queueMutex' = TRUE
    /\ statsPc' = IF WaitPredicate THEN "inner" ELSE "periodic"
    /\ UNCHANGED <<messageQueue, statsShouldStop, message, statsMain,
                   counters, submitted, applied, lastHandled, runs>>

\* processMessages: while (!messageQueue.empty()): the front message is
\* taken and the lock released
CPop ==
    /\ statsPc = "inner"
    /\ IF messageQueue # <<>>
           THEN /\ message' = Head(messageQueue)
                /\ messageQueue' = Tail(messageQueue)
                /\ queueMutex' = FALSE
                /\ statsPc' = "handle"
           ELSE /\ statsPc' = "periodic"
                /\ UNCHANGED <<messageQueue, queueMutex, message>>
    /\ UNCHANGED <<statsShouldStop, statsMain, counters, submitted, applied,
                   lastHandled, runs>>

\* the greater of two scores
MaxScore(a, b) == IF b > a THEN b ELSE a

\* StatsProvider::handleMappingProcessed
handleMappingProcessed(c, msg) ==
    [c EXCEPT !.totalMappingsProcessed = @ + 1,
              !.totalWordsValidated = @ + msg.wordsValidated,
              !.highestScore = MaxScore(@, msg.score)]

\* StatsProvider::handleBatchStats
handleBatchStats(c, msg) ==
    [c EXCEPT !.totalMappingsProcessed = @ + msg.mappingsProcessed,
              !.totalWordsValidated = @ + msg.wordsValidated,
              !.highestScore = IF msg.hasHighScore
                                   THEN MaxScore(@, msg.highestScore)
                                   ELSE @]

\* StatsProvider::handleHighScore
handleHighScore(c, msg) == [c EXCEPT !.highScoreCount = @ + 1]

\* StatsProvider::handleThreadLifecycle
handleThreadLifecycle(c, msg) ==
    IF msg.type = "THREAD_STARTED"
        THEN [c EXCEPT !.activeThreads = sizeFetchAdd(@)]
    ELSE IF msg.type = "THREAD_COMPLETED"
        THEN [c EXCEPT !.activeThreads = sizeFetchSub(@)]
    ELSE c

\* processMessages: switch (message->type)
Dispatch(c, msg) ==
    CASE msg.type = "MAPPING_PROCESSED" -> handleMappingProcessed(c, msg)
      [] msg.type = "BATCH_STATS" -> handleBatchStats(c, msg)
      [] msg.type = "HIGH_SCORE_FOUND" -> handleHighScore(c, msg)
      [] msg.type \in {"THREAD_STARTED", "THREAD_COMPLETED"} ->
             handleThreadLifecycle(c, msg)
      [] OTHER -> c

\* processMessages: the message is handled; SHUTDOWN returns
CHandle ==
    /\ statsPc = "handle"
    /\ counters' = Dispatch(counters, message)
    /\ lastHandled' = message
    /\ applied' = IF message.type = "SHUTDOWN" THEN applied
                  ELSE applied \cup {message.id}
    /\ statsPc' = IF message.type = "SHUTDOWN" THEN "exited" ELSE "relock"
    /\ message' = NoMessage
    /\ UNCHANGED <<messageQueue, queueMutex, statsShouldStop, statsMain,
                   submitted, runs>>

\* processMessages: lock.lock() for the next iteration of the inner loop
CRelock ==
    /\ statsPc = "relock"
    /\ ~queueMutex
    /\ queueMutex' = TRUE
    /\ statsPc' = "inner"
    /\ UNCHANGED <<messageQueue, statsShouldStop, message, statsMain,
                   counters, submitted, applied, lastHandled, runs>>

\* processMessages: the periodic status update and the end of the loop body,
\* where the unique_lock releases the mutex
CPeriodic ==
    /\ statsPc = "periodic"
    /\ queueMutex' = FALSE
    /\ statsPc' = "top"
    /\ UNCHANGED <<messageQueue, statsShouldStop, message, statsMain,
                   counters, submitted, applied, lastHandled, runs>>

StatsNext ==
    \/ StatsStart /\ UNCHANGED <<schedVars, poolVars, resultsVars, managerVars>>
    \/ submitMappingProcessed /\ UNCHANGED <<schedVars, poolVars, resultsVars, managerVars>>
    \/ submitBatchStats /\ UNCHANGED <<schedVars, poolVars, resultsVars, managerVars>>
    \/ submitHighScore /\ UNCHANGED <<schedVars, poolVars, resultsVars, managerVars>>
    \/ submitThreadStarted /\ UNCHANGED <<schedVars, poolVars, resultsVars, managerVars>>
    \/ submitThreadCompleted /\ UNCHANGED <<schedVars, poolVars, resultsVars, managerVars>>
    \/ requestStatusUpdate /\ UNCHANGED <<schedVars, poolVars, resultsVars, managerVars>>
    \/ StatsStopFlag /\ UNCHANGED <<schedVars, poolVars, resultsVars, managerVars>>
    \/ StatsStopPush /\ UNCHANGED <<schedVars, poolVars, resultsVars, managerVars>>
    \/ StatsStopJoin /\ UNCHANGED <<schedVars, poolVars, resultsVars, managerVars>>
    \/ CTop /\ UNCHANGED <<schedVars, poolVars, resultsVars, managerVars>>
    \/ CWait /\ UNCHANGED <<schedVars, poolVars, resultsVars, managerVars>>
    \/ CWake /\ UNCHANGED <<schedVars, poolVars, resultsVars, managerVars>>
    \/ CPop /\ UNCHANGED <<schedVars, poolVars, resultsVars, managerVars>>
    \/ CHandle /\ UNCHANGED <<schedVars, poolVars, resultsVars, managerVars>>
    \/ CRelock /\ UNCHANGED <<schedVars, poolVars, resultsVars, managerVars>>
    \/ CPeriodic /\ UNCHANGED <<schedVars, poolVars, resultsVars, managerVars>>

\* the statistics provider with its submitters, its consumer thread and the
\* thread that starts and stops it
StatsSpec == Init /\ [][StatsNext]_vars

(* ------------------- the workers and the active-threads gauge ---------- *)
\* ThreadManager::start: the statistics provider is started, then one thread
\* per worker runs workerThreadFunction
GStart ==
    /\ StatsStart
    /\ \A w \in Threads : pc[w] = "none"
    /\ pc' = [w \in Threads |-> "init"]
    /\ UNCHANGED <<wBlock, wDone, shouldStop, signalReceived, isRunning,
                   mainPc, kills, doneBlocks>>

\* a worker pushes a message for the statistics provider
WorkerSubmit(w, p, msg) ==
    /\ Push(msg)
    /\ submitted' = submitted \cup {msg.id}
    /\ SetPc(w, p)
    /\ UNCHANGED <<queueMutex, statsShouldStop, statsPc, message, statsMain,
                   counters, applied, lastHandled, runs>>
    /\ UNCHANGED <<wBlock, wDone, shouldStop, signalReceived, isRunning,
                   mainPc, kills, doneBlocks>>

\* workerThreadFunction: decoder.initialize() succeeds and the worker
\* submits THREAD_STARTED, or it fails (returns false, or throws into the
\* catch block) and the worker submits THREAD_COMPLETED and returns
WInitialize(w) ==
    /\ pc[w] = "init"
    /\ \E initialized \in BOOLEAN :
          IF initialized
              THEN WorkerSubmit(w, "loop",
                       ThreadLifecycleMessage(NextId, "THREAD_STARTED"))
              ELSE WorkerSubmit(w, "done",
                       ThreadLifecycleMessage(NextId, "THREAD_COMPLETED"))

\* workerThreadFunction: the worker leaves its loop (cancelled, generation
\* complete, or an exception caught) and submits THREAD_COMPLETED
WLeave(w) ==
    /\ pc[w] = "loop"
    /\ WorkerSubmit(w, "done",
           ThreadLifecycleMessage(NextId, "THREAD_COMPLETED"))

GaugeNext ==
    \/ GStart /\ UNCHANGED <<schedVars, resultsVars, managerVars>>
    \/ \E w \in Threads : WInitialize(w) /\ UNCHANGED <<schedVars, resultsVars, managerVars>>
    \/ \E w \in Threads : WLeave(w) /\ UNCHANGED <<schedVars, resultsVars, managerVars>>
    \/ CTop /\ UNCHANGED <<schedVars, poolVars, resultsVars, managerVars>>
    \/ CWait /\ UNCHANGED <<schedVars, poolVars, resultsVars, managerVars>>
    \/ CWake /\ UNCHANGED <<schedVars, poolVars, resultsVars, managerVars>>
    \/ CPop /\ UNCHANGED <<schedVars, poolVars, resultsVars, managerVars>>
    \/ CHandle /\ UNCHANGED <<schedVars, poolVars, resultsVars, managerVars>>
    \/ CRelock /\ UNCHANGED <<schedVars, poolVars, resultsVars, managerVars>>
    \/ CPeriodic /\ UNCHANGED <<schedVars, poolVars, resultsVars, managerVars>>

\* the worker threads reporting their start and their end to the statistics
\* provider
GaugeSpec == Init /\ [][GaugeNext]_vars

(* --------------------- the manager: start, wait and stop --------------- *)
\* config.maxMappingsToProcess as main() sets it: no limit
maxMappingsToProcess == 0

\* the threads that call ThreadManager::stop: the main thread (from
\* waitForCompletion) and the interrupt handler
Callers == {"main", "handler"}

Other(c) == IF c = "main" THEN "handler" ELSE "main"

\* the position of a caller of stop()
At(c) == IF c = "main" THEN mainPc ELSE handlerPc

Goto(c, p) ==
    IF c = "main"
        THEN mainPc' = p /\ UNCHANGED handlerPc
        ELSE handlerPc' = p /\ UNCHANGED mainPc

\* the process lives and the caller's thread is scheduled: a signal handler
\* that interrupted the main thread suspends it until the handler returns
Runs(c) ==
    /\ ~aborted
    /\ c = "main" => ~(handlerThread = "main" /\ handlerPc # "returned")

\* ThreadManager::start (runDecoding calls it after initialize): the flags,
\* statsProvider->start(), one thread per worker
MStart ==
    /\ mainPc = "idle"
    /\ ~isRunning
    /\ shouldStop' = FALSE
    /\ signalReceived' = FALSE
    /\ isRunning' = TRUE
    /\ StatsStart
    /\ pc' = [w \in Threads |-> "loop"]
    /\ mainPc' = "waiting"
    /\ UNCHANGED <<schedVars, resultsVars, managerVars, wBlock, wDone, kills,
                   doneBlocks>>

\* waitForCompletion: "while (isRunning.load() && !shouldStop.load() &&
\* !signalReceived.load())", then the sleep; after the loop stop() is called
MWaitTest ==
    /\ Runs("main")
    /\ mainPc = "waiting"
    /\ mainPc' = IF isRunning /\ ~shouldStop /\ ~signalReceived
                     THEN "slept" ELSE "stop"
    /\ UNCHANGED <<schedVars, reportVars, pc, wBlock, wDone, shouldStop,
                   signalReceived, isRunning, kills, doneBlocks>>

\* waitForCompletion: the body of the loop after the sleep: no limit on the
\* mappings is configured, "if (signalReceived.load()) { shouldStop = true;
\* break; }"
MWaitSlept ==
    /\ Runs("main")
    /\ mainPc = "slept"
    /\ maxMappingsToProcess = 0
    /\ IF signalReceived
           THEN shouldStop' = TRUE /\ mainPc' = "stop"
           ELSE mainPc' = "waiting" /\ UNCHANGED shouldStop
    /\ UNCHANGED <<schedVars, reportVars, pc, wBlock, wDone, signalReceived,
                   isRunning, kills, doneBlocks>>

\* ThreadManager::signalHandler, run on the main thread it interrupts in
\* waitForCompletion: signalReceived = true, then instance->stop()
SignalOnMain ==
    /\ ~aborted
    /\ handlerPc = "none"
    /\ mainPc \in {"waiting", "slept"}
    /\ signalReceived' = TRUE
    /\ handlerPc' = "stop"
    /\ handlerThread' = "main"
    /\ UNCHANGED <<schedVars, resultsVars, statsVars, aborted, pc, wBlock,
                   wDone, shouldStop, isRunning, mainPc, kills, doneBlocks>>

\* ThreadManager::consoleHandler, run on a thread of its own:
\* signalReceived = true
ConsoleEvent ==
    /\ ~aborted
    /\ handlerPc = "none"
    /\ mainPc \in {"waiting", "slept"}
    /\ signalReceived' = TRUE
    /\ handlerPc' = "raise"
    /\ handlerThread' = "console"
    /\ UNCHANGED <<schedVars, resultsVars, statsVars, aborted, pc, wBlock,
                   wDone, shouldStop, isRunning, mainPc, kills, doneBlocks>>

\* consoleHandler: instance->shouldStop = true, the sleep, then
\* instance->stop()
ConsoleRaise ==
    /\ ~aborted
    /\ handlerPc = "raise"
    /\ shouldStop' = TRUE
    /\ handlerPc' = "stop"
    /\ UNCHANGED <<schedVars, resultsVars, statsVars, handlerThread, aborted,
                   pc, wBlock, wDone, signalReceived, isRunning, mainPc,
                   kills, doneBlocks>>

\* ThreadManager::stop: "if (!isRunning.load()) return;  shouldStop = true;"
StopEnter(c) ==
    /\ Runs(c)
    /\ At(c) = "stop"
    /\ IF ~isRunning
           THEN Goto(c, "returned") /\ UNCHANGED shouldStop
           ELSE Goto(c, "join") /\ shouldStop' = TRUE
    /\ UNCHANGED <<schedVars, resultsVars, statsVars, handlerThread, aborted,
                   pc, wBlock, wDone, signalReceived, isRunning, kills,
                   doneBlocks>>

\* ThreadManager::stop: every joinable worker thread is joined, then
\* workerThreads.clear()
StopJoin(c) ==
    /\ Runs(c)
    /\ At(c) = "join"
    /\ \A w \in Threads : pc[w] \in {"done", "none"}
    /\ pc' = [w \in Threads |-> "none"]
    /\ Goto(c, "statsStop")
    /\ UNCHANGED <<schedVars, resultsVars, statsVars, handlerThread, aborted,
                   wBlock, wDone, shouldStop, signalReceived, isRunning,
                   kills, doneBlocks>>

\* ThreadManager::stop: two callers are in the loop over workerThreads: they
\* join and clear the same std::thread objects without synchronisation,
\* which is undefined; besides both going on (StopJoin) a join throws
\* std::system_error or touches a destroyed thread, and the process ends
StopJoinRace(c) ==
    /\ Runs(c)
    /\ At(c) = "join"
    /\ At(Other(c)) = "join"
    /\ aborted' = TRUE
    /\ UNCHANGED <<schedVars, resultsVars, statsVars, handlerPc,
                   handlerThread, poolVars>>

\* StatsProvider::stop, called by ThreadManager::stop: "if
\* (!statsThread.joinable()) return;  shouldStop = true;"
StopStats(c) ==
    /\ Runs(c)
    /\ At(c) = "statsStop"
    /\ IF statsPc = "none"
           THEN Goto(c, "finish") /\ UNCHANGED statsShouldStop
           ELSE Goto(c, "statsPush") /\ statsShouldStop' = TRUE
    /\ UNCHANGED <<schedVars, resultsVars, handlerThread, aborted, pc,
                   wBlock, wDone, shouldStop, signalReceived, isRunning,
                   kills, doneBlocks>>
    /\ UNCHANGED <<messageQueue, queueMutex, statsPc, message, statsMain,
                   counters, submitted, applied, lastHandled, runs>>

\* StatsProvider::stop: the SHUTDOWN message is pushed
StopStatsPush(c) ==
    /\ Runs(c)
    /\ At(c) = "statsPush"
    /\ Push(StatsMessage(0, "SHUTDOWN"))
    /\ Goto(c, "statsJoin")
    /\ UNCHANGED <<schedVars, resultsVars, handlerThread, aborted, pc,
                   wBlock, wDone, shouldStop, signalReceived, isRunning,
                   kills, doneBlocks>>
    /\ UNCHANGED <<queueMutex, statsShouldStop, statsPc, message, statsMain,
                   counters, submitted, applied, lastHandled, runs>>

\* StatsProvider::stop: "if (statsThread.joinable()) statsThread.join();"
StopStatsJoin(c) ==
    /\ Runs(c)
    /\ At(c) = "statsJoin"
    /\ statsPc \in {"exited", "none"}
    /\ statsPc' = "none"
    /\ Goto(c, "finish")
    /\ UNCHANGED <<schedVars, resultsVars, handlerThread, aborted, pc,
                   wBlock, wDone, shouldStop, signalReceived, isRunning,
                   kills, doneBlocks>>
    /\ UNCHANGED <<messageQueue, queueMutex, statsShouldStop, message,
                   statsMain, counters, submitted, applied, lastHandled,
                   runs>>

\* StatsProvider::stop: two callers join the same statsThread, which is
\* undefined as in StopJoinRace
StopStatsJoinRace(c) ==
    /\ Runs(c)
    /\ At(c) = "statsJoin"
    /\ At(Other(c)) = "statsJoin"
    /\ aborted' = TRUE
    /\ UNCHANGED <<schedVars, resultsVars, statsVars, handlerPc,
                   handlerThread, poolVars>>

\* ThreadManager::stop: "isRunning = false;" and the return
StopFinish(c) ==
    /\ Runs(c)
    /\ At(c) = "finish"
    /\ isRunning' = FALSE
    /\ Goto(c, "returned")
    /\ UNCHANGED <<schedVars, resultsVars, statsVars, handlerThread, aborted,
                   pc, wBlock, wDone, shouldStop, signalReceived, kills,
                   doneBlocks>>

\* a step of a caller inside ThreadManager::stop that the code defines
StopStep(c) ==
    \/ StopEnter(c)
    \/ StopJoin(c)
    \/ StopStats(c)
    \/ StopStatsPush(c)
    \/ StopStatsJoin(c)
    \/ StopFinish(c)

\* a step of a worker thread
ManagerWorkerStep(w) == ~aborted /\ WorkerStep(w)

\* a step of the statistics thread (processMessages)
ConsumerStep ==
    /\ ~aborted
    /\ CTop \/ CWait \/ CWake \/ CPop \/ CHandle \/ CRelock \/ CPeriodic
    /\ UNCHANGED <<schedVars, poolVars, resultsVars, managerVars>>

ManagerNext ==
    \/ MStart
    \/ MWaitTest
    \/ MWaitSlept
    \/ SignalOnMain
    \/ ConsoleEvent
    \/ ConsoleRaise
    \/ \E c \in Callers : StopEnter(c)
    \/ \E c \in Callers : StopJoin(c)
    \/ \E c \in Callers : StopJoinRace(c)
    \/ \E c \in Callers : StopStats(c)
    \/ \E c \in Callers : StopStatsPush(c)
    \/ \E c \in Callers : StopStatsJoin(c)
    \/ \E c \in Callers : StopStatsJoinRace(c)
    \/ \E c \in Callers : StopFinish(c)
    \/ \E w \in Threads : ManagerWorkerStep(w)
    \/ ConsumerStep

\* every thread of the living process is scheduled fairly: the workers, the
\* main thread, the handler once it runs, the statistics thread
ManagerFairness ==
    /\ \A w \in Threads : WF_<<pc, wDone, kills>>(~aborted /\ WorkerRan(w))
    /\ WF_vars(MStart)
    /\ WF_vars(MWaitTest \/ MWaitSlept \/ StopStep("main"))
    /\ WF_vars(ConsoleRaise \/ StopStep("handler"))
    /\ WF_vars(ConsumerStep)

\* one run of runDecoding with its workers, the statistics thread and an
\* interrupt
ManagerSpec == PoolInit /\ [][ManagerNext]_vars /\ ManagerFairness

TypeOK ==
    /\ state.nextBlockToGenerate \in 0 .. NumBlocks
    /\ Len(blockWindow) <= NumBlocks
    /\ DOMAIN threadToBlock \subseteq Threads


(* ------------------------ scheduler-level claims ----------------------- *)
PendingHeldBy(w) ==
    {i \in 1 .. Len(blockWindow) :
        blockWindow[i].state = PENDING /\ blockWindow[i].assignedThreadId = w}

CompletedInWindow ==
    {i \in 1 .. Len(blockWindow) : blockWindow[i].state = COMPLETED}

PendingInWindow ==
    {i \in 1 .. Len(blockWindow) : blockWindow[i].state = PENDING}

\* C1: within one scheduler lifetime and without reset(), no block index is
\* returned by getNextBlock more than once.
C1_BlockReturnedAtMostOnce ==
    \A b \in DOMAIN returned : returned[b] <= 1

\* two blocks were handed out in this lifetime, one of them a block
\* reloaded from the checkpoint and re-assigned
C1_Witness ==
    /\ lastOp = "getNextBlock"
    /\ lastPath = "reassigned"
    /\ Cardinality({b \in DOMAIN returned : returned[b] = 1}) >= 2

SameAfterLoad ==
    /\ state' = state
    /\ Len(blockWindow') = Len(blockWindow)
    /\ \A i \in 1 .. Len(blockWindow) :
          /\ blockWindow'[i].blockIndex = blockWindow[i].blockIndex
          /\ blockWindow'[i].state = blockWindow[i].state
          /\ blockWindow[i].state = PENDING
                => blockWindow'[i].assignedThreadId = Unassigned

\* C5: saving the scheduler state and loading it into a new scheduler keeps
\* the four counters, isComplete and the window's indices, order and states;
\* every PENDING block is unassigned after the load.
C5_CheckpointRoundTrip ==
    [][(enableStateFile /\ lastOp' = "shutdownRestart") => SameAfterLoad]_vars

\* a scheduler reloaded from a checkpoint holding a COMPLETED block and a
\* PENDING one, with non-zero counters
C5_Witness ==
    /\ enableStateFile
    /\ lastOp = "shutdownRestart"
    /\ CompletedInWindow # {}
    /\ PendingInWindow # {}
    /\ state.oldestTrackedBlock >= 1

\* C6: every block of the window has its index in
\* [oldestTrackedBlock, nextBlockToGenerate).
C6_WindowIndexRange ==
    \A i \in 1 .. Len(blockWindow) :
        /\ state.oldestTrackedBlock <= blockWindow[i].blockIndex
        /\ blockWindow[i].blockIndex < state.nextBlockToGenerate

\* a window of two blocks whose head was advanced by a prune
C6_Witness ==
    /\ lastOp = "completeCurrentBlock"
    /\ Len(blockWindow) >= 2
    /\ state.oldestTrackedBlock >= 1

\* C7: the window is sorted by blockIndex, strictly ascending.
C7_WindowStrictlyAscending ==
    \A i \in 1 .. Len(blockWindow) : \A j \in 1 .. Len(blockWindow) :
        i < j => blockWindow[i].blockIndex < blockWindow[j].blockIndex

\* a block was appended behind blocks that were already in the window
C7_Witness ==
    /\ lastOp = "getNextBlock"
    /\ Len(blockWindow) >= 3
    /\ blockWindow[Len(blockWindow)].blockIndex = lastRet

\* C8: after getNextBlock, completeCurrentBlock or reset has returned, the
\* head of the window is not COMPLETED.
C8_HeadNotCompleted ==
    lastOp \in {"getNextBlock", "completeCurrentBlock", "reset"}
        => (Len(blockWindow) > 0 => Head(blockWindow).state # COMPLETED)

\* C9: for each worker id at most one PENDING block is assigned to it.
C9_OnePendingPerWorker ==
    \A w \in Threads : Cardinality(PendingHeldBy(w)) <= 1

\* a worker acquired a second block while the one it had completed is still
\* in the window, and another worker holds a block too
C9_Witness ==
    \E w \in Threads :
        /\ PendingHeldBy(w) # {}
        /\ \E i \in CompletedInWindow : blockWindow[i].assignedThreadId = w
        /\ \E v \in Threads \ {w} : PendingHeldBy(v) # {}

\* C10: totalBlocksCompleted <= totalBlocksGenerated = nextBlockToGenerate.
C10_CounterRelation ==
    /\ state.totalBlocksCompleted <= state.totalBlocksGenerated
    /\ state.totalBlocksGenerated = state.nextBlockToGenerate

\* all blocks generated so far are completed, after a reset and new work
C10_Witness ==
    /\ state.totalBlocksCompleted = state.totalBlocksGenerated
    /\ state.totalBlocksGenerated >= 2
    /\ lastOp = "completeCurrentBlock"


(* -------------------------- worker-pool claims ------------------------- *)
BlockPending(b) ==
    \E i \in PendingInWindow : blockWindow[i].blockIndex = b

\* block b was marked COMPLETED: it is COMPLETED in the window or pruned
BlockCompleted(b) ==
    \/ b < state.oldestTrackedBlock
    \/ \E i \in CompletedInWindow : blockWindow[i].blockIndex = b

\* C2: every block that is PENDING when the killed process is restarted from
\* its checkpoint is eventually handed out and COMPLETED, the workers being
\* scheduled fairly and not cancelled again.
C2_CrashLosesNoBlock ==
    \A b \in 0 .. (NumBlocks - 1) :
        (lastOp = "killRestart" /\ BlockPending(b)) ~> BlockCompleted(b)

\* C3: a block is COMPLETED, and counted in totalBlocksCompleted, only after
\* a worker has processed every mapping of it and called completeBlock.
C3_CancelledBlockNotCompleted ==
    /\ \A b \in 0 .. (NumBlocks - 1) : BlockCompleted(b) => b \in doneBlocks
    /\ state.totalBlocksCompleted <= Cardinality(doneBlocks)

(* --------------------- scheduler-level claims, continued --------------- *)
\* a step that starts the history of the block indices afresh: reset(), or
\* a new scheduler constructed without a checkpoint to load
StartsAfresh ==
    \/ lastOp' = "reset"
    \/ lastOp' \in {"shutdownRestart", "killRestart"} /\ ~enableStateFile

HoldsOldest(t) ==
    /\ Len(blockWindow) > 0
    /\ blockWindow[1].state = PENDING
    /\ blockWindow[1].assignedThreadId = t
    /\ blockWindow[1].blockIndex = state.oldestTrackedBlock

RECURSIVE CompletedRun(_, _)
\* number of COMPLETED blocks of win in a row from position i on
CompletedRun(win, i) ==
    IF i <= Len(win) /\ win[i].state = COMPLETED
        THEN 1 + CompletedRun(win, i + 1)
        ELSE 0

\* C12: completeBlock by the worker that holds the PENDING block at
\* oldestTrackedBlock removes that block and the COMPLETED blocks directly
\* after it, sets oldestTrackedBlock to the index of the first block left (or
\* to nextBlockToGenerate), adds one to totalBlocksCompleted and leaves the
\* other blocks as they were.
C12_CompleteOldestPrunes ==
    [][\A t \in Threads :
         (HoldsOldest(t) /\ CompleteCurrentBlock(t)) =>
            LET removed == 1 + CompletedRun(blockWindow, 2)
            IN /\ blockWindow' = SubSeq(blockWindow, removed + 1,
                                        Len(blockWindow))
               /\ state'.oldestTrackedBlock =
                     IF Len(blockWindow') = 0
                         THEN state'.nextBlockToGenerate
                         ELSE blockWindow'[1].blockIndex
               /\ state'.totalBlocksCompleted =
                     state.totalBlocksCompleted + 1
               /\ state'.nextBlockToGenerate = state.nextBlockToGenerate]_vars

\* the oldest block was completed after a younger one: two blocks have been
\* pruned and a block another worker holds is left
C12_Witness ==
    /\ lastOp = "completeCurrentBlock"
    /\ state.oldestTrackedBlock = 2
    /\ state.totalBlocksCompleted = 2
    /\ Len(blockWindow) = 1
    /\ blockWindow[1].state = PENDING
    /\ blockWindow[1].assignedThreadId # Unassigned

\* C14: between scheduler operations isComplete is true if and only if
\* nextBlockToGenerate * blockSize >= TOTAL_COMBINATIONS.
C14_IsCompleteIffExhausted ==
    state.isComplete <=>
        (state.nextBlockToGenerate * blockSize >= TOTAL_COMBINATIONS)

\* C15: after reset() the counters are 0, isComplete is false, the window
\* and the worker-to-block map are empty and the checkpoint file does not
\* exist: the scheduler is what the constructor makes.
C15_ResetIsFresh ==
    lastOp = "reset" =>
        /\ state = GeneratorState
        /\ blockWindow = <<>>
        /\ threadToBlock = EmptyMap
        /\ ~stateFile.exists
        /\ Constructor(stateFile) =
               [state |-> state, blockWindow |-> blockWindow,
                threadToBlock |-> threadToBlock]

\* reset() has returned in a scheduler that writes checkpoints
C15_Witness ==
    /\ lastOp = "reset"
    /\ enableStateFile
    /\ state.nextBlockToGenerate = 0

\* the text is a whole checkpoint record: what saveStateToJson writes for
\* the state and the window it holds
CompleteRecord(lines) ==
    /\ ~loadThrows(lines)
    /\ lines = saveStateToJson(ParseState(lines, 1, GeneratorState),
                               loadBlockWindowFromJson(lines))

\* C16: whenever the process dies, a write included, the checkpoint file on
\* disk is a whole record (the previous or the new one), never a partial one.
C16_CheckpointNeverPartial ==
    stateFile.exists => CompleteRecord(stateFile.lines)

\* a scheduler has just been constructed, or the constructor has just failed
JustStarted ==
    lastOp \in {"shutdownRestart", "killRestart", "tornRestart",
                "constructorThrew"}

\* C17: a scheduler constructed over an absent or unparsable checkpoint file
\* is in the initial empty state and the constructor raises no error.
C17_BadCheckpointStartsEmpty ==
    (enableStateFile /\ JustStarted
     /\ (~stateFile.exists \/ ~CompleteRecord(stateFile.lines))) =>
        /\ Constructed
        /\ state = GeneratorState
        /\ blockWindow = <<>>
        /\ threadToBlock = EmptyMap

(* -------------------- claims about the pure functions ------------------ *)
Min(a, b) == IF a < b THEN a ELSE b

\* C13: for b * B < total, generateBlock returns min(B, total - b * B)
\* mappings and the mapping at offset k is the matrix of
\* indexToPermutation(b * B + k); no mapping has a global index >= total.
C13_BlockContents ==
    (fnCall.op = "generateBlock"
     /\ fnCall.blockIndex * fnCall.size < TOTAL_COMBINATIONS) =>
        LET first == fnCall.blockIndex * fnCall.size
            n == Min(fnCall.size, TOTAL_COMBINATIONS - first)
        IN /\ Len(fnCall.block) = n
           /\ \A k \in 0 .. (n - 1) :
                 /\ first + k < TOTAL_COMBINATIONS
                 /\ fnCall.block[k + 1] =
                        MappingOf(indexToPermutation(ToU64(first + k)))

\* a block that straddles the end of the search space was generated: it is
\* shorter than the block size
C13_Witness ==
    /\ fnCall.op = "generateBlock"
    /\ fnCall.blockIndex > 0
    /\ fnCall.blockIndex * fnCall.size < TOTAL_COMBINATIONS
    /\ (fnCall.blockIndex + 1) * fnCall.size > TOTAL_COMBINATIONS
    /\ Len(fnCall.block) >= 1
    /\ Len(fnCall.block) < fnCall.size

\* the sequence holds every value 0 .. 26 exactly once
IsPermutation(q) ==
    /\ Len(q) = EvaAlphabetSize
    /\ \A v \in 0 .. (EvaAlphabetSize - 1) :
          Cardinality({k \in 1 .. Len(q) : q[k] = v}) = 1

\* C18: for every global index below the total, indexToPermutation returns
\* 27 entries that hold every value 0 .. 26 exactly once.
C18_IndexToPermutationIsPermutation ==
    fnCall.op = "indexToPermutation" =>
        IsPermutation(fnCall.permI) /\ IsPermutation(fnCall.permJ)

\* the largest index below the total was converted: factorial(26) and
\* factorial(25) had wrapped around and the second symbol is not the first
\* one left
C18_Witness ==
    /\ fnCall.op = "indexToPermutation"
    /\ fnCall.i = SampleIndices[11]
    /\ fnCall.permI[2] = 2
    /\ fnCall.permI[27] # 26

\* C19: indexToPermutation is injective: two different global indices below
\* the total give two different permutations.
C19_IndexToPermutationInjective ==
    (fnCall.op = "indexToPermutation" /\ fnCall.i # fnCall.j) =>
        fnCall.permI # fnCall.permJ

\* two indices that differ by factorial(25) as the program computes it were
\* converted, together
C19_Witness ==
    /\ fnCall.op = "indexToPermutation"
    /\ fnCall.i = SampleIndices[8]
    /\ fnCall.j = SampleIndices[1]
    /\ fnCall.permI # fnCall.permJ

\* C20: the total the scheduler uses (getTotalCombinations) is 27!, the
\* number of permutations of the 27 symbols.
C20_TotalIsFactorialOfAlphabet ==
    fnCall.op = "getTotalCombinations" =>
        fnCall.total = NumberOfPermutations(EvaAlphabetSize)

\* C21: factorial(n), computed in unsigned 64-bit arithmetic, is the
\* mathematical n! for every n in 0 .. 26 that indexToPermutation uses;
\* factorial(26) does not wrap around modulo 2^64.
C21_FactorialExact ==
    fnCall.op = "factorial" => fnCall.result = NumberOfPermutations(fnCall.n)

\* the matrix whose set cells are m has exactly one set bit in every row
\* and exactly one in every column
IsBijection(m) ==
    /\ \A r \in 0 .. (EvaAlphabetSize - 1) :
          Cardinality({c \in 0 .. (EvaAlphabetSize - 1) : <<r, c>> \in m}) = 1
    /\ \A c \in 0 .. (EvaAlphabetSize - 1) :
          Cardinality({r \in 0 .. (EvaAlphabetSize - 1) : <<r, c>> \in m}) = 1

\* C22: every mapping that block generation produces is a bijection: its
\* 27 x 27 matrix has exactly one set bit in every row and in every column.
C22_GeneratedMappingIsBijection ==
    /\ fnCall.op = "generateBlock" =>
          \A k \in 1 .. Len(fnCall.block) : IsBijection(fnCall.block[k])
    /\ (fnCall.op = "generateSingleMapping" /\ fnCall.made) =>
          IsBijection(fnCall.mapping)

\* the mapping of the largest index below the total was made: the
\* factorials had wrapped around and the second symbol maps to the third
\* letter
C22_Witness ==
    /\ fnCall.op = "generateSingleMapping"
    /\ fnCall.globalIndex = SampleIndices[11]
    /\ fnCall.made
    /\ <<1, 2>> \in fnCall.mapping
    /\ <<0, 0>> \in fnCall.mapping

(* ---------------------- claims about the translation ------------------- *)
\* number of set bits of a vector
popcount(v) == Cardinality({k \in 1 .. Len(v) : v[k] # 0})

\* C23: for every bijective mapping M and every 27-bit input vector v,
\* M.apply(v) has as many set bits as v; so has every word a corpus is
\* translated to under M.
C23_ApplyPreservesPopcount ==
    /\ (fnCall.op = "applyMapping" /\ IsBijection(fnCall.matrix)) =>
          popcount(fnCall.result) = popcount(fnCall.inputVector)
    /\ (fnCall.op = "translateWordSet" /\ IsBijection(fnCall.matrix)) =>
          \A n \in 1 .. Len(fnCall.words) :
              popcount(fnCall.words[n].binaryMatrix) =
                  popcount(fnCall.evaWords[n].binaryMatrix)

\* a bijective mapping that moves the last symbol was applied to a vector
\* with the first and the last bit set
C23_Witness ==
    /\ fnCall.op = "applyMapping"
    /\ IsBijection(fnCall.matrix)
    /\ <<26, 26>> \notin fnCall.matrix
    /\ fnCall.inputVector[1] = 1
    /\ fnCall.inputVector[27] = 1
    /\ popcount(fnCall.result) >= 2

InsertedVectors ==
    {generateBinaryMatrix(fnCall.lexiconLines[k], HEBREW) :
        k \in 1 .. Len(fnCall.lexiconLines)}

\* C25: lexicon membership is exact on presence vectors: a queried vector
\* that is not zero is counted as a match (hash hit and signature hit) if
\* and only if a word inserted at build time has exactly that vector.
C25_LexiconMembershipExact ==
    fnCall.op = "validateTranslationWithMapping" =>
        fnCall.result.matchedWords =
            Cardinality({n \in 1 .. Len(fnCall.translatedWords) :
                /\ popcount(fnCall.translatedWords[n].binaryMatrix) > 0
                /\ fnCall.translatedWords[n].binaryMatrix \in InsertedVectors})

\* a word was queried whose hash is in the lexicon and whose vector is not,
\* next to a word of the lexicon: one match
C25_Witness ==
    /\ fnCall.op = "validateTranslationWithMapping"
    /\ Len(fnCall.translatedWords) = 2
    /\ fnCall.translatedWords[1] = TranslatedSamples[2]
    /\ fnCall.translatedWords[2] = TranslatedSamples[3]
    /\ LexiconLines[2] \in {fnCall.lexiconLines[k] :
                               k \in 1 .. Len(fnCall.lexiconLines)}
    /\ binaryVectorToHash(fnCall.translatedWords[1].binaryMatrix) =
           binaryVectorToHash(fnCall.translatedWords[2].binaryMatrix)
    /\ fnCall.result.matchedWords = 1

\* C26 as stated: a record is appended to the results file if and only if
\* the score is at least scoreThreshold and results saving is enabled.
C26_RecordIffScoreAtLeastThreshold ==
    fnCall.op = "validateTranslationWithMapping" =>
        ((fnCall.fileAfter # fnCall.fileBefore) <=>
            (/\ fnCall.result.score >= fnCall.config.scoreThreshold
             /\ fnCall.config.enableResultsSaving))

\* C26, amended: a record is appended to the results file if and only if
\* the result's isHighScore is set, results saving is enabled and the file
\* can be opened; isHighScore is score >= scoreThreshold for a corpus that
\* is not empty and false for an empty one; the record is appended after
\* the records the file has and carries the mapping id and the descriptor
\* passed to the validator.
C26_RecordIffHighScoreFlag ==
    fnCall.op = "validateTranslationWithMapping" =>
        LET appended == /\ fnCall.result.isHighScore
                        /\ fnCall.config.enableResultsSaving
                        /\ fnCall.opens
        IN /\ fnCall.result.isHighScore <=>
                  (/\ Len(fnCall.translatedWords) > 0
                   /\ fnCall.result.score >= fnCall.config.scoreThreshold)
           /\ appended =>
                  /\ Len(fnCall.fileAfter) = Len(fnCall.fileBefore) + 1
                  /\ SubSeq(fnCall.fileAfter, 1, Len(fnCall.fileBefore)) =
                         fnCall.fileBefore
                  /\ LET entry == fnCall.fileAfter[Len(fnCall.fileAfter)]
                     IN /\ entry.mappingId = fnCall.mappingId
                        /\ entry.mappingData = fnCall.mappingData
                        /\ entry.score = fnCall.result.score
           /\ ~appended => fnCall.fileAfter = fnCall.fileBefore

\* a corpus with a match was validated under the default threshold and its
\* record was appended to a results file that had a record
C26_Witness ==
    /\ fnCall.op = "validateTranslationWithMapping"
    /\ fnCall.config.scoreThreshold = 25 * Scale
    /\ fnCall.result.matchedWords >= 1
    /\ fnCall.result.isHighScore
    /\ fnCall.fileBefore = <<OldEntry>>
    /\ Len(fnCall.fileAfter) = 2
    /\ fnCall.fileAfter[2].mappingId = 7

\* C27: for an empty translated corpus validation returns totalWords = 0,
\* matchedWords = 0, matchPercentage = 0, score = 0 and isHighScore = false
\* under every configured threshold, a threshold of 0 included, and nothing
\* is appended to the results file.
C27_EmptyCorpusScoresNothing ==
    (fnCall.op = "validateTranslationWithMapping"
     /\ Len(fnCall.translatedWords) = 0) =>
        /\ fnCall.result.totalWords = 0
        /\ fnCall.result.matchedWords = 0
        /\ fnCall.result.matchPercentage = 0
        /\ fnCall.result.score = 0
        /\ fnCall.result.isHighScore = FALSE
        /\ fnCall.fileAfter = fnCall.fileBefore

\* an empty corpus was validated under the threshold 0 with saving enabled,
\* a lexicon that has words and a results file that can be opened
C27_Witness ==
    /\ fnCall.op = "validateTranslationWithMapping"
    /\ Len(fnCall.translatedWords) = 0
    /\ fnCall.config.scoreThreshold = 0
    /\ fnCall.config.enableResultsSaving
    /\ fnCall.opens
    /\ Len(fnCall.lexiconLines) >= 2
    /\ fnCall.fileAfter = <<OldEntry>>

(* ---------------------- claims about the results file ------------------ *)
\* C28: appends to the shared results file are mutually exclusive across
\* workers: no two workers, each with its own validator, are inside the
\* append to the results file at the same time.
C28_AppendsMutuallyExclusive ==
    \A w1 \in Threads, w2 \in Threads :
        (vpc[w1] = "write" /\ vpc[w2] = "write") => w1 = w2

(* ------------------- claims about the statistics provider -------------- *)
\* C29: shutdown drains the aggregator: when the consumer thread has exited
\* and stop() has returned, every message submitted before stop() was called
\* has been applied to the counters.
C29_ShutdownDrains ==
    statsMain = "returned" => submitted \subseteq applied

\* C30: highestScore is the running maximum of the reported scores: when
\* the aggregator has processed a MAPPING_PROCESSED or BATCH_STATS message,
\* highestScore is at least the score the message carries, and highestScore
\* never decreases between start() and stop().
C30_HighestScoreIsRunningMaximum ==
    [][/\ (statsPc = "handle" /\ statsPc' # "handle" /\
           message.type = "MAPPING_PROCESSED") =>
              counters'.highestScore >= message.score
       /\ (statsPc = "handle" /\ statsPc' # "handle" /\
           message.type = "BATCH_STATS") =>
              counters'.highestScore >= message.highestScore
       /\ statsMain' = statsMain =>
              counters'.highestScore >= counters.highestScore]_vars

(* ------------------ scheduler-level claims, third part ----------------- *)
\* what loadStateFromJson reads from the checkpoint on disk
OnDisk == loadStateFromJson(stateFile.lines)

\* the four counters of the checkpoint are those in memory
CountersOnDisk ==
    /\ OnDisk.state.nextBlockToGenerate = state.nextBlockToGenerate
    /\ OnDisk.state.oldestTrackedBlock = state.oldestTrackedBlock
    /\ OnDisk.state.totalBlocksGenerated = state.totalBlocksGenerated
    /\ OnDisk.state.totalBlocksCompleted = state.totalBlocksCompleted

\* the window of the checkpoint has the blocks in memory, index and state
WindowOnDisk ==
    /\ Len(OnDisk.blockWindow) = Len(blockWindow)
    /\ \A i \in 1 .. Len(blockWindow) :
          /\ OnDisk.blockWindow[i].blockIndex = blockWindow[i].blockIndex
          /\ OnDisk.blockWindow[i].state = blockWindow[i].state

\* getNextBlock or completeCurrentBlock has returned, the state file enabled
ReturnedWithStateFile ==
    enableStateFile /\ lastOp \in {"getNextBlock", "completeCurrentBlock"}

UnassignedPendingIndices(win) ==
    {win[i].blockIndex : i \in {j \in 1 .. Len(win) :
        win[j].state = PENDING /\ win[j].assignedThreadId = Unassigned}}

\* indices of the blocks of window win
WindowIndices(win) == {win[i].blockIndex : i \in 1 .. Len(win)}

\* C33: a getNextBlock that starts with isComplete false and an unassigned
\* PENDING block in the window returns the lowest-index such block, assigned
\* to the caller, and leaves nextBlockToGenerate, totalBlocksGenerated and
\* the set of block indices of the window unchanged; a getNextBlock creates
\* a block only when the window has no unassigned PENDING block.
C33_ReassignmentPreferred ==
    [][lastOp' = "getNextBlock" =>
        /\ (~state.isComplete /\ UnassignedPendingIndices(blockWindow) # {})
            => /\ lastRet' \in UnassignedPendingIndices(blockWindow)
               /\ \A b \in UnassignedPendingIndices(blockWindow) :
                      lastRet' <= b
               /\ \E t \in Threads :
                      /\ t \in DOMAIN threadToBlock'
                      /\ threadToBlock'[t] = lastRet'
                      /\ \E i \in 1 .. Len(blockWindow') :
                            /\ blockWindow'[i].blockIndex = lastRet'
                            /\ blockWindow'[i].state = PENDING
                            /\ blockWindow'[i].assignedThreadId = t
               /\ state'.nextBlockToGenerate = state.nextBlockToGenerate
               /\ state'.totalBlocksGenerated = state.totalBlocksGenerated
               /\ WindowIndices(blockWindow') = WindowIndices(blockWindow)
        /\ WindowIndices(blockWindow') # WindowIndices(blockWindow)
            => UnassignedPendingIndices(blockWindow) = {}]_vars

\* getNextBlock re-assigned a reloaded block while a second one, of higher
\* index, is still unassigned, and blocks are left to create
C33_Witness ==
    /\ lastOp = "getNextBlock"
    /\ lastPath = "reassigned"
    /\ ~state.isComplete
    /\ state.nextBlockToGenerate < NumBlocks
    /\ \E b \in UnassignedPendingIndices(blockWindow) : b > lastRet

\* C37: in every scheduler state, started fresh or reloaded from a
\* checkpoint the scheduler wrote, totalBlocksCompleted = oldestTrackedBlock
\* + the number of COMPLETED blocks in the window.
C37_CompletionAccounting ==
    state.totalBlocksCompleted =
        state.oldestTrackedBlock + Cardinality(CompletedInWindow)

\* a scheduler reloaded after a kill, with blocks pruned and a COMPLETED
\* block waiting in the window behind a PENDING one
C37_Witness ==
    /\ lastOp = "killRestart"
    /\ state.oldestTrackedBlock >= 1
    /\ CompletedInWindow # {}
    /\ PendingInWindow # {}
    /\ state.totalBlocksCompleted >= 2

\* C38: threadToBlock maps worker w to block b if and only if block b is in
\* the window, PENDING and assigned to w; after a checkpoint load or reset()
\* the map is empty.
C38_MapAgreesWithWindow ==
    /\ \A w \in Threads, b \in 0 .. (NumBlocks - 1) :
          (w \in DOMAIN threadToBlock /\ threadToBlock[w] = b)
              <=> \E i \in 1 .. Len(blockWindow) :
                     /\ blockWindow[i].blockIndex = b
                     /\ blockWindow[i].state = PENDING
                     /\ blockWindow[i].assignedThreadId = w
    /\ DOMAIN threadToBlock \subseteq Threads
    /\ lastOp \in {"reset", "shutdownRestart", "killRestart"}
          => threadToBlock = EmptyMap

\* both workers hold a block, behind a COMPLETED block that getNextBlock
\* left in the window
C38_Witness ==
    /\ lastOp = "getNextBlock"
    /\ DOMAIN threadToBlock = Threads
    /\ CompletedInWindow # {}
    /\ Cardinality(PendingInWindow) = NumThreads

(* -------------- claims about the statistics provider, continued -------- *)
\* C40: after stop() has returned the message queue holds no SHUTDOWN
\* message, and a consumer started by a later start() does not exit before
\* the next stop() is called.
C40_NoStaleShutdown ==
    /\ statsMain = "returned" =>
           \A i \in 1 .. Len(messageQueue) :
               messageQueue[i].type # "SHUTDOWN"
    /\ statsMain = "started" => statsPc # "exited"

\* workers that have started and have not completed
StartedNotCompleted == {w \in Threads : pc[w] = "loop"}

\* C31: the active-workers gauge never wraps around below zero, and once
\* every message of the workers is applied it is the number of workers that
\* have started and not yet completed.
C31_ActiveThreadsGauge ==
    /\ ~Less(ToU64(NumThreads), counters.activeThreads)
    /\ (messageQueue = <<>> /\ statsPc # "handle")
          => counters.activeThreads =
                 ToU64(Cardinality(StartedNotCompleted))

(* --------------------- worker-pool claims, continued ------------------- *)
\* every block of the search space has been created and marked COMPLETED
AllBlocksCompleted ==
    /\ state.nextBlockToGenerate * blockSize >= TOTAL_COMBINATIONS
    /\ \A b \in 0 .. (NumBlocks - 1) : BlockCompleted(b)

\* C35: once every block of the search space has been created and marked
\* COMPLETED, isGenerationComplete() eventually holds and every worker has
\* left its loop, whatever acquire and complete calls, cancellations and
\* restarts led there.
C35_WorkersTerminateAtExhaustion ==
    AllBlocksCompleted ~>
        (isGenerationComplete /\ \A w \in Threads : pc[w] \notin WorkerActive)

(* ------------------------- claims about the manager -------------------- *)
\* a caller is inside the shutdown sequence of ThreadManager::stop: past the
\* test of isRunning and before the return
InShutdown(c) ==
    At(c) \in {"join", "statsStop", "statsPush", "statsJoin", "finish"}

\* C39: stop() is safe under concurrent callers: when the interrupt handler
\* and waitForCompletion call it at the same time, at most one of them
\* executes the shutdown sequence (join the workers, clear the thread list,
\* stop the aggregator).
C39_ShutdownByOneCaller ==
    ~(InShutdown("main") /\ InShutdown("handler"))

\* every worker has left its loop because the generation is complete, and
\* nothing has interrupted the run
ExitedAtExhaustion ==
    /\ isRunning
    /\ \A w \in Threads : pc[w] = "done"
    /\ isGenerationComplete
    /\ ~signalReceived
    /\ ~shouldStop
    /\ maxMappingsToProcess = 0

\* C36: once every worker has exited because the generation is complete
\* (no limit on the mappings), waitForCompletion eventually returns and
\* isRunning becomes false, in every run that no interrupt reaches.
C36_RunEndsWhenWorkEnds ==
    ExitedAtExhaustion ~> ((mainPc = "returned" /\ ~isRunning) \/ signalReceived)

\* the run was cancelled and has come to rest: the workers have left their
\* loops, the statistics thread has exited, stop() has returned to every
\* caller and the manager is stopped
CancellationComplete ==
    /\ ~isRunning
    /\ \A w \in Threads : pc[w] \notin WorkerActive
    /\ statsPc \in {"exited", "none"}
    /\ mainPc = "returned"
    /\ handlerPc = "returned"

\* C34: cancellation always completes: after the interrupt every worker
\* leaves its loop, the aggregator's consumer exits and stop() returns with
\* isRunning = false, whether stop() is called by the handler or by
\* waitForCompletion; no thread blocks forever.
C34_CancellationCompletes ==
    signalReceived ~> CancellationComplete

====
